---- MODULE Spec2Model ----
(***************************************************************************)
(* A model of the coio-rs coroutine runtime: the ReadyStates readiness     *)
(* latch and the GenericEvented I/O adapter built on it (SpecRS), the      *)
(* reactor with its message channel, timers and hand-off queue (Spec), and *)
(* the life cycle of Scheduler::run with spawn and join (SpecRun).         *)
(***************************************************************************)
EXTENDS Integers, Sequences, FiniteSets, TLC

\* ------------------------------------------------------------------ bounds
\* Coroutines that share one ReadyStates in SpecRS.
NumCoros == 2
\* Coroutines that run I/O operations on one GenericEvented in SpecIO.
NumIoCoros == 1
\* Coroutines besides <main>; task 1 is the <main> coroutine.
NumTasks == 2
\* Coroutines besides <main> that take part in Spec.
NumReTasks == 1
\* Capacity of the reactor's message channel (mio's notify queue).
ChanCap == 1
\* Worker threads.
NumWorkers == 1
\* Worker threads that push to the global queue in SpecGQ.
NumGqWorkers == 2
\* Longest global queue in SpecGQ.
MaxGq == 4
NumSpinThreads == 3
TickBits == 2

\* ------------------------------------------------------- program constants
\* ReadyType has four variants, Readable = 0 .. Hup = 3; notify loops 0..4.
NumKinds == 4
Readable == 0
Writable == 1

Kinds == 0 .. (NumKinds - 1)
Coros == 1 .. NumCoros
\* Option<Handle>::None in a waiter slot.
NoHandle == 0

VARIABLES
    \* --- ReadyStates: Spinlock<(EventSet, [Option<Handle>; 4])>
    mask,               \* inner.0, the latched readiness bits (set of kinds)
    slot,               \* inner.1, one waiter slot per kind
    lock,               \* Spinlock.lock (AtomicBool)
    \* --- coroutines using the ReadyStates
    pc,                 \* where each coroutine stands
    waitKind,           \* ready_type of the wait in progress
    ioOp,               \* "none", "wait" (direct call), "read", "write", "flush"
    ioRes,              \* outcome of the last underlying call of the I/O loop
    guard,              \* SyncGuard.0 of the I/O operation in progress
    \* --- reactor thread inside Handler::ready
    rpc,                \* "idle", "locked" (inside notify), "push"
    rEvents,            \* events argument of Handler::ready
    handles,            \* the local [Handle; 4] filled by notify
    \* --- queues
    io_handler_queue,
    global_queue,
    local_queue,
    \* --- observers of one wait / one I/O operation
    consumed,           \* this wait cleared the mask bit
    delivered,          \* notify took this wait's handle out of the slot
    yielded,            \* this wait called park_with
    everWaited,         \* this I/O operation called wait at least once
    schedCalled,        \* the guard of the last I/O operation called sched()
    owed,               \* kinds latched by notify and not yet consumed
    \* --- Spec: coroutines, reactor and message channel
    tpc,                \* "absent", "susp", "run", "send", "done" per task
    op,                 \* the suspending call a task is inside, or "none"
    pending,            \* the Message a park callback is trying to send
    ret,                \* the value the suspending call will return
    fd,                 \* Token of the GenericEvented a task owns
    channel,            \* messages accepted by the Sender, in order
    evRunning,          \* EventLoop.run
    rphase,             \* where the loop of Scheduler::run stands
    slab,               \* Scheduler.slab: the Tokens present
    slabCap,            \* capacity of the slab
    kernel,             \* Tokens registered with the poller
    rs,                 \* the ReadyStates behind each Token
    timers,             \* timer wheel: entries [coro, left]
    result,             \* the `result` slot of Scheduler::run
    dropped,            \* messages whose send failed and was not retried
    \* --- spawn and join
    entry,              \* what a task's entry function produces
    jchan,              \* the join channel of each spawned task
    jh,                 \* the task that holds each JoinHandle
    jwait,              \* the consumer parked in each join channel
    joinRes,            \* what join returned for each task
    \* --- Scheduler::run
    runpc,              \* where the thread inside run stands
    hook,               \* the process-wide panic hook
    savedHook,          \* default_handler, captured by the installed hook
    priorHook,          \* the hook in place when run was called
    machines,           \* Scheduler.machines, the Vec<Machine>
    drained,            \* the Machines the Drain iterator still holds
    wstate,             \* each worker thread: "unborn", "start", "loop",
                        \* "stop" (at the shutdown barrier), "exited", "joined"
    procMsg,            \* ProcMessage::Shutdown sent to each worker
    runRet,             \* what run returned
    mainOut,            \* what main_fn produced
    is_shutting_down,   \* Scheduler.is_shutting_down
    idle_flag,          \* the bool inside idle_processor_mutex
    \* --- SpecSeq: the calls made on one ReadyStates, one after another
    trail,              \* the last two calls, each with the state before it
    \* --- SpecGQ: the global queue, its mutex and its size cache
    gq_mutex,           \* the thread inside global_queue's Mutex, or NoThread
    global_queue_size,  \* Scheduler.global_queue_size (AtomicUsize)
    gpc,                \* where each thread stands
    gitems,             \* the handles a thread is pushing
    gsize,              \* the local `size` of a push or splice
    gidle,              \* the local idle_processor_count of an unpark
    idle_processor_count,
    spinning_processor_count,
    lastNotify,         \* the last unpark: what it read, what it issued
    \* --- a thread that is not a worker of the scheduler
    outside,            \* the operation it called and how the call ended
    \* --- SpecSpin: threads sharing one Spinlock (its flag is `lock`)
    spc,                \* where each thread stands
    backoff,            \* the local `backoff` of each thread inside lock()
    tryRes,             \* what the last try_lock of each thread returned
    \* --- SpecTicket: threads sharing one TicketSpinlock
    tick,               \* TicketSpinlock.tick (AtomicUsize)
    tock,               \* TicketSpinlock.tock (AtomicUsize)
    kpc,                \* where each thread stands
    ticket,             \* the local `ticket` of each thread
    cur,                \* the local `cur` of each thread
    order,              \* the threads waiting, in the order they drew
    overflow_checks,    \* the build: does an integer overflow panic
    \* --- SpecPark: the idle mutex and its condition variable
    idle_mutex,         \* the thread inside idle_processor_mutex, or NoThread
    waiting,            \* the workers blocked in idle_processor_condvar.wait
    pcnt                \* the notify_one calls a thread has still to make

rsCoreVars == <<mask, slot, lock, pc, waitKind, ioOp, ioRes, guard, rpc,
                rEvents, handles, io_handler_queue, global_queue, local_queue,
                consumed, delivered, yielded, everWaited, schedCalled, owed>>

\* The variables of the specifications that stand apart from the scheduler.
seqVars == <<trail>>
gqVars == <<gq_mutex, global_queue_size, gpc, gitems, gsize, gidle,
            idle_processor_count, spinning_processor_count, lastNotify>>
extVars == <<outside>>
spinVars == <<spc, backoff, tryRes>>
ticketVars == <<tick, tock, kpc, ticket, cur, order, overflow_checks>>
parkVars == <<idle_mutex, waiting, pcnt>>
auxVars == <<seqVars, gqVars, extVars, spinVars, ticketVars, parkVars>>

rsVars == <<rsCoreVars, auxVars>>

reVars == <<tpc, op, pending, ret, fd, channel, evRunning, rphase, slab,
            slabCap, kernel, rs, timers, result, dropped>>

joinVars == <<entry, jchan, jh, jwait, joinRes>>

runVars == <<runpc, hook, savedHook, priorHook, machines, drained, wstate,
             procMsg, runRet, mainOut, is_shutting_down, idle_flag>>

nonRsVars == <<reVars, joinVars, runVars, auxVars>>

vars == <<rsVars, reVars, joinVars, runVars>>

\* --------------------------------------------------------------- helpers
SeqToSet(s) == { s[i] : i \in 1 .. Len(s) }

\* ReadyType -> EventSet: transmute(1usize << self as usize), one bit.
IntoEventSet(ready_type) == { ready_type }

\* Spinlock::lock succeeds by the exchange false -> true.
SpinAcquire == lock = FALSE /\ lock' = TRUE
\* SpinlockGuard::drop stores false.
SpinRelease == lock' = FALSE

\* ------------------------------------------------- ReadyStates::notify
\* The loop `for i in 0..4`: for an event bit present, take the waiter if
\* the slot holds one, else latch the bit.  r = [mask, slot, handles].
RECURSIVE NotifyLoop(_, _, _)
NotifyLoop(i, event_set, r) ==
    IF i >= NumKinds THEN r
    ELSE IF i \in event_set
         THEN IF r.slot[i] # NoHandle
              THEN NotifyLoop(i + 1, event_set,
                      [mask |-> r.mask,
                       slot |-> [r.slot EXCEPT ![i] = NoHandle],
                       handles |-> Append(r.handles, r.slot[i])])
              ELSE NotifyLoop(i + 1, event_set,
                      [mask |-> r.mask \cup {i},
                       slot |-> r.slot,
                       handles |-> r.handles])
         ELSE NotifyLoop(i + 1, event_set, r)

\* A notify that returns the waiters it finds and leaves them in the slots.
Notify_KeepSlot(m, s, event_set) ==
    [mask |-> NotifyLoop(0, event_set,
                         [mask |-> m, slot |-> s, handles |-> <<>>]).mask,
     slot |-> s,
     handles |-> NotifyLoop(0, event_set,
                            [mask |-> m, slot |-> s, handles |-> <<>>]).handles]
\* ReadyStates::notify(event_set), lines 170-188.
Notify(m, s, event_set) ==
    NotifyLoop(0, event_set, [mask |-> m, slot |-> s, handles |-> <<>>])

\* ------------------------------------------------- ReadyStates::wait
\* A wait that parks without looking at the mask.
WaitSeesBit_AlwaysPark(c) == FALSE
\* First check: `if inner.0.contains(event_set)`.
WaitSeesBit(c) == IntoEventSet(waitKind[c]) \subseteq mask
\* A park callback that stores the handle without looking at the mask again.
ParkSeesBit_NoRecheck(c) == FALSE
\* Re-check inside the park callback.
ParkSeesBit(c) == IntoEventSet(waitKind[c]) \subseteq mask

\* ------------------------------------------------- Processor (not in src)
\* Processor::ready: push the handle onto the worker's local queue.
ProcReady(q, c) == Append(q, c)

\* Processor::sched: re-queue the current coroutine at the local tail.
ProcSched(q, c) == Append(q, c)

\* ------------------------------------------------- SyncGuard
\* A guard that starts disarmed.
SyncGuardNew_Disarmed == FALSE
\* SyncGuard::new
SyncGuardNew == TRUE
\* A disarm that leaves the guard armed.
SyncGuardDisarm_Armed == TRUE
\* SyncGuard::disarm
SyncGuardDisarm == FALSE
\* Drop for SyncGuard: `if self.0 { Scheduler::sched() }`
SyncGuardDropCallsSched(g) == g

\* Kind an I/O operation waits for: read -> Readable, write/flush -> Writable.
IoWaitKind(o) == IF o = "read" THEN Readable ELSE Writable

IoOps == {"read", "write", "flush"}
\* Outcomes of the underlying non-blocking call.
IoOutcomes == {"ok", "would_block", "not_connected", "other"}
\* A loop without the NotConnected arm.
IoMustWait_OnlyWouldBlock(r) == r = "would_block"
\* The match arms of the I/O loop that fall through to wait.
IoMustWait(r) == r \in {"would_block", "not_connected"}

\* ------------------------------------------------- tasks, messages, reactor
\* Task 1 is the <main> coroutine; the others are spawned by running tasks.
Main == 1
Tasks == 1 .. (NumTasks + 1)
\* The tasks that take part in Spec.
ReTasks == 1 .. (NumReTasks + 1)
NoTask == NoHandle
\* Slab indices; every task owns at most one registration.
Tokens == 0 .. NumReTasks
NoToken == -1
\* Slab::new(1024), scaled to the model.
SlabInitialCap == 1
\* Sleeps asked for, in reactor ticks.
Delays == {0, 1}
\* thread::Result<T> of catch_unwind(f) for the entry function of task t:
\* Ok(value of t) or Err(panic payload of t).
Outcomes(t) == { [kind |-> "Ok", of |-> t], [kind |-> "Err", of |-> t] }
\* An empty Option / an empty join channel.
NoOutcome == [kind |-> "None", of |-> NoTask]
\* Worker threads, tid 0 .. expected_worker_count - 1.
Workers == 0 .. (NumWorkers - 1)
\* Panic hooks: the standard one, a custom one, and the one run installs,
\* which falls through to the hook it captured.
StdHook == [kind |-> "std", inner |-> "none"]
CustomHook == [kind |-> "custom", inner |-> "none"]
NoHook == [kind |-> "none", inner |-> "none"]
CoroutineHook(default_handler) == [kind |-> "coio", inner |-> default_handler.kind]

\* enum Message and its constructors.
NoMsg == [type |-> "None", coro |-> NoTask, token |-> NoToken, delay |-> 0]
RegisterMessage(coro) ==
    [type |-> "Register", coro |-> coro, token |-> NoToken, delay |-> 0]
DeregisterMessage(coro, token) ==
    [type |-> "Deregister", coro |-> coro, token |-> token, delay |-> 0]
TimerMessage(coro, delay) ==
    [type |-> "Timer", coro |-> coro, token |-> NoToken, delay |-> delay]
ShutdownMessage ==
    [type |-> "Shutdown", coro |-> NoTask, token |-> NoToken, delay |-> 0]

\* A wrapper that delivers a panic as if the entry function had returned.
WrapperPush_PanicAsValue(r) == [kind |-> "Ok", of |-> r.of]
\* The wrapper of spawn_opts: `let _ = tx.push(ret)`.
WrapperPush(r) == r

\* A wrapper of <main> that leaves the result slot empty.
StoreResult_Lost(r) == NoOutcome
\* The wrapper of <main>: `*result = Some(ret)`.
StoreResult(r) == r

\* ReadyStates::new()
NewReadyStates == [mask |-> {}, slot |-> [k \in Kinds |-> NoHandle]]

rsOnlyVars == <<mask, slot, lock, pc, waitKind, ioOp, ioRes, guard, rpc,
                rEvents, handles, consumed, delivered, yielded, everWaited,
                schedCalled, owed, auxVars>>

\* The scheduler's variables, which the stand-alone specifications freeze.
coreVars == <<rsCoreVars, reVars, joinVars, runVars>>

InitSeq == trail = <<>>

\* The run thread (0) and the worker threads of SpecGQ.
GqThreads == 0 .. NumGqWorkers
GqWorkers == 1 .. NumGqWorkers
NoThread == NoToken
\* processor::QUEUE_SIZE, scaled to the model.
QUEUE_SIZE == 4
NoNotify == [size |-> 0, idle |-> 0, spinning |-> 0, count |-> 0, by |-> NoThread]

\* Scheduler::new: an empty global queue, all counters zero.
InitGq ==
    /\ gq_mutex = NoThread
    /\ global_queue_size = 0
    /\ gpc = [th \in GqThreads |-> "run"]
    /\ gitems = [th \in GqThreads |-> <<>>]
    /\ gsize = [th \in GqThreads |-> 0]
    /\ gidle = [th \in GqThreads |-> 0]
    /\ idle_processor_count = 0
    /\ spinning_processor_count = 0
    /\ lastNotify = NoNotify

\* The operations that need the Scheduler of the calling thread.
OutsideOps == {"spawn", "spawn_opts", "park_with", "GenericEvented::new"}
NoCall == [op |-> "none", outcome |-> "none"]

\* No thread outside the scheduler has called anything yet.
InitExt == outside = NoCall

\* The threads that share a lock in SpecSpin and SpecTicket.
SpinThreads == 1 .. NumSpinThreads

\* 1<<4 and 1<<12.
BACKOFF_BASE == 16
BACKOFF_CEILING == 4096

\* Spinlock::new (the flag itself is `lock`); no thread holds a guard.
InitSpin ==
    /\ spc = [t \in SpinThreads |-> "idle"]
    /\ backoff = [t \in SpinThreads |-> BACKOFF_BASE]
    /\ tryRes = [t \in SpinThreads |-> "none"]

\* usize of the model: TickBits bits.
UsizeMod == 2 ^ TickBits

\* TicketSpinlock::new: tick and tock are 0.
InitTicket ==
    /\ tick = 0
    /\ tock = 0
    /\ kpc = [t \in SpinThreads |-> "idle"]
    /\ ticket = [t \in SpinThreads |-> 0]
    /\ cur = [t \in SpinThreads |-> 0]
    /\ order = <<>>

\* Mutex::new(false), Condvar::new(): nobody holds the idle mutex, nobody
\* waits.
InitPark ==
    /\ idle_mutex = NoThread
    /\ waiting = {}
    /\ pcnt = [th \in GqThreads |-> 0]

\* The build matters to TicketSpinlock only; elsewhere it is fixed.
InitAux ==
    /\ InitSeq /\ InitGq /\ InitExt /\ InitSpin /\ InitTicket /\ InitPark
    /\ overflow_checks = FALSE

\* Sender::send: Err(NotifyError::Full(msg)) when the queue is at capacity.
ChannelFull == Len(channel) >= ChanCap

\* Some worker in its schedule loop has no current coroutine.
WorkerFree ==
    Cardinality({ t \in Tasks : tpc[t] \in {"run", "send"} })
        < Cardinality({ w \in Workers : wstate[w] = "loop" })

InitRe ==
    /\ tpc = [t \in Tasks |-> IF t = Main THEN "susp" ELSE "absent"]
    /\ op = [t \in Tasks |-> "none"]
    /\ pending = [t \in Tasks |-> NoMsg]
    /\ ret = [t \in Tasks |-> "none"]
    /\ fd = [t \in Tasks |-> NoToken]
    /\ channel = <<>>
    /\ evRunning = TRUE
    /\ rphase = "io"
    /\ slab = {}
    /\ slabCap = SlabInitialCap
    /\ kernel = {}
    /\ rs = [k \in Tokens |-> NewReadyStates]
    /\ timers = {}
    /\ result = NoOutcome
    /\ dropped = <<>>

InitJoin ==
    /\ entry = [t \in Tasks |-> NoOutcome]
    /\ jchan = [t \in Tasks |-> NoOutcome]
    /\ jh = [t \in Tasks |-> NoTask]
    /\ jwait = [t \in Tasks |-> NoTask]
    /\ joinRes = [t \in Tasks |-> NoOutcome]

\* Scheduler::run inside its loop (line 330): the hook is installed, the
\* Machines are spawned and past the startup barrier.
InitRunLoop ==
    /\ runpc = "loop"
    /\ priorHook = StdHook
    /\ savedHook = priorHook
    /\ hook = CoroutineHook(priorHook)
    /\ machines = [i \in 1 .. NumWorkers |-> i - 1]
    /\ drained = <<>>
    /\ wstate = [w \in Workers |-> "loop"]
    /\ procMsg = [w \in Workers |-> FALSE]
    /\ runRet = NoOutcome
    /\ mainOut = NoOutcome
    /\ is_shutting_down = FALSE
    /\ idle_flag = FALSE

\* =================================================================
\*  SpecRS: one ReadyStates shared by NumCoros coroutines and the reactor
\* =================================================================
InitRS ==
    /\ mask = {}
    /\ slot = [k \in Kinds |-> NoHandle]
    /\ lock = FALSE
    /\ pc = [c \in Coros |-> "run"]
    /\ waitKind = [c \in Coros |-> Readable]
    /\ ioOp = [c \in Coros |-> "none"]
    /\ ioRes = [c \in Coros |-> "none"]
    /\ guard = [c \in Coros |-> FALSE]
    /\ rpc = "idle"
    /\ rEvents = {}
    /\ handles = <<>>
    /\ io_handler_queue = <<>>
    /\ global_queue = <<>>
    /\ local_queue = <<>>
    /\ consumed = [c \in Coros |-> FALSE]
    /\ delivered = [c \in Coros |-> FALSE]
    /\ yielded = [c \in Coros |-> FALSE]
    /\ everWaited = [c \in Coros |-> FALSE]
    /\ schedCalled = [c \in Coros |-> FALSE]
    /\ owed = {}
    /\ InitRe
    /\ InitJoin
    /\ InitRunLoop
    /\ InitAux

\* Entering ReadyStates::wait(ready_type): the observers start afresh.
EnterWait(c, k) ==
    /\ pc' = [pc EXCEPT ![c] = "wait"]
    /\ waitKind' = [waitKind EXCEPT ![c] = k]
    /\ consumed' = [consumed EXCEPT ![c] = FALSE]
    /\ delivered' = [delivered EXCEPT ![c] = FALSE]
    /\ yielded' = [yielded EXCEPT ![c] = FALSE]

\* A coroutine calls ready_states.wait(k) directly.
CallWait(c, k) ==
    /\ pc[c] = "run"
    /\ EnterWait(c, k)
    /\ ioOp' = [ioOp EXCEPT ![c] = "wait"]
    /\ UNCHANGED nonRsVars
    /\ UNCHANGED <<mask, slot, lock, ioRes, guard, rpc, rEvents, handles,
                   io_handler_queue, global_queue, local_queue, everWaited,
                   schedCalled, owed>>

\* ReadyStates::make_ready: self.0.lock().0.insert(ready_type.into())
MakeReady(c, k) ==
    /\ pc[c] = "run"
    /\ lock = FALSE
    /\ mask' = mask \cup IntoEventSet(k)
    /\ UNCHANGED nonRsVars
    /\ UNCHANGED <<slot, lock, pc, waitKind, ioOp, ioRes, guard, rpc, rEvents,
                   handles, io_handler_queue, global_queue, local_queue,
                   consumed, delivered, yielded, everWaited, schedCalled, owed>>

\* wait, line 142: let mut inner = self.0.lock()
WaitLock(c) ==
    /\ pc[c] = "wait"
    /\ SpinAcquire
    /\ pc' = [pc EXCEPT ![c] = "wait_locked"]
    /\ UNCHANGED nonRsVars
    /\ UNCHANGED <<mask, slot, waitKind, ioOp, ioRes, guard, rpc, rEvents,
                   handles, io_handler_queue, global_queue, local_queue,
                   consumed, delivered, yielded, everWaited, schedCalled, owed>>

\* wait, lines 144-150: consume the bit and return, or drop the lock and
\* call park_with.
WaitCheck(c) ==
    /\ pc[c] = "wait_locked"
    /\ SpinRelease
    /\ IF WaitSeesBit(c)
       THEN /\ mask' = mask \ IntoEventSet(waitKind[c])
            /\ consumed' = [consumed EXCEPT ![c] = TRUE]
            /\ owed' = owed \ {waitKind[c]}
            /\ pc' = [pc EXCEPT ![c] = "wait_ret"]
            /\ UNCHANGED yielded
       ELSE /\ pc' = [pc EXCEPT ![c] = "park"]
            /\ yielded' = [yielded EXCEPT ![c] = TRUE]
            /\ UNCHANGED <<mask, consumed, owed>>
    /\ UNCHANGED nonRsVars
    /\ UNCHANGED <<slot, waitKind, ioOp, ioRes, guard, rpc, rEvents, handles,
                   io_handler_queue, global_queue, local_queue, delivered,
                   everWaited, schedCalled>>

\* park callback, line 151: let mut inner = self.0.lock()
ParkLock(c) ==
    /\ pc[c] = "park"
    /\ SpinAcquire
    /\ pc' = [pc EXCEPT ![c] = "cb_locked"]
    /\ UNCHANGED nonRsVars
    /\ UNCHANGED <<mask, slot, waitKind, ioOp, ioRes, guard, rpc, rEvents,
                   handles, io_handler_queue, global_queue, local_queue,
                   consumed, delivered, yielded, everWaited, schedCalled, owed>>

\* park callback, lines 153-158, the lock still held: consume the bit and
\* p.ready(coro), or store the handle in the slot (the Option it replaces
\* is dropped).
ParkCheck(c) ==
    /\ pc[c] = "cb_locked"
    /\ IF ParkSeesBit(c)
       THEN /\ mask' = mask \ IntoEventSet(waitKind[c])
            /\ consumed' = [consumed EXCEPT ![c] = TRUE]
            /\ owed' = owed \ {waitKind[c]}
            /\ local_queue' = ProcReady(local_queue, c)
            /\ pc' = [pc EXCEPT ![c] = "cb_done"]
            /\ UNCHANGED slot
       ELSE /\ slot' = [slot EXCEPT ![waitKind[c]] = c]
            /\ pc' = [d \in Coros |->
                        IF d = c THEN "cb_done"
                        ELSE IF d = slot[waitKind[c]] THEN "dropped"
                        ELSE pc[d]]
            /\ UNCHANGED <<mask, consumed, owed, local_queue>>
    /\ UNCHANGED nonRsVars
    /\ UNCHANGED <<lock, waitKind, ioOp, ioRes, guard, rpc, rEvents, handles,
                   io_handler_queue, global_queue, delivered, yielded,
                   everWaited, schedCalled>>

\* park callback, line 159: the guard `inner` goes out of scope.
ParkUnlock(c) ==
    /\ pc[c] = "cb_done"
    /\ SpinRelease
    /\ pc' = [pc EXCEPT ![c] = "susp"]
    /\ UNCHANGED nonRsVars
    /\ UNCHANGED <<mask, slot, waitKind, ioOp, ioRes, guard, rpc, rEvents,
                   handles, io_handler_queue, global_queue, local_queue,
                   consumed, delivered, yielded, everWaited, schedCalled, owed>>

\* wait has returned to its caller: user code, or the I/O loop, which
\* disarms the guard and retries.
WaitReturn(c) ==
    /\ pc[c] = "wait_ret"
    /\ IF ioOp[c] = "wait"
       THEN /\ pc' = [pc EXCEPT ![c] = "run"]
            /\ ioOp' = [ioOp EXCEPT ![c] = "none"]
            /\ UNCHANGED guard
       ELSE /\ guard' = [guard EXCEPT ![c] = SyncGuardDisarm]
            /\ pc' = [pc EXCEPT ![c] = "io_call"]
            /\ UNCHANGED ioOp
    /\ waitKind' = [waitKind EXCEPT ![c] = Readable]
    /\ consumed' = [consumed EXCEPT ![c] = FALSE]
    /\ delivered' = [delivered EXCEPT ![c] = FALSE]
    /\ yielded' = [yielded EXCEPT ![c] = FALSE]
    /\ UNCHANGED nonRsVars
    /\ UNCHANGED <<mask, slot, lock, ioRes, rpc, rEvents, handles,
                   io_handler_queue, global_queue, local_queue,
                   everWaited, schedCalled, owed>>

\* GenericEvented::read / write / flush, the head: SyncGuard::new()
IoStart(c, o) ==
    /\ pc[c] = "run"
    /\ ioOp' = [ioOp EXCEPT ![c] = o]
    /\ ioRes' = [ioRes EXCEPT ![c] = "none"]
    /\ guard' = [guard EXCEPT ![c] = SyncGuardNew]
    /\ everWaited' = [everWaited EXCEPT ![c] = FALSE]
    /\ schedCalled' = [schedCalled EXCEPT ![c] = FALSE]
    /\ pc' = [pc EXCEPT ![c] = "io_call"]
    /\ UNCHANGED nonRsVars
    /\ UNCHANGED <<mask, slot, lock, waitKind, rpc, rEvents, handles,
                   io_handler_queue, global_queue, local_queue, consumed,
                   delivered, yielded, owed>>

\* One turn of the loop: the underlying call and the match on its result.
IoCall(c, r) ==
    /\ pc[c] = "io_call"
    /\ ioRes' = [ioRes EXCEPT ![c] = r]
    /\ IF IoMustWait(r)
       THEN /\ EnterWait(c, IoWaitKind(ioOp[c]))
            /\ everWaited' = [everWaited EXCEPT ![c] = TRUE]
       ELSE /\ pc' = [pc EXCEPT ![c] = "io_ret"]
            /\ UNCHANGED <<waitKind, consumed, delivered, yielded, everWaited>>
    /\ UNCHANGED nonRsVars
    /\ UNCHANGED <<mask, slot, lock, ioOp, guard, rpc, rEvents, handles,
                   io_handler_queue, global_queue, local_queue, schedCalled,
                   owed>>

\* `return`: the SyncGuard is dropped; an armed guard calls
\* Scheduler::sched(), which yields the coroutine to the local queue.
IoReturn(c) ==
    /\ pc[c] = "io_ret"
    /\ ioOp' = [ioOp EXCEPT ![c] = "none"]
    /\ IF SyncGuardDropCallsSched(guard[c])
       THEN /\ schedCalled' = [schedCalled EXCEPT ![c] = TRUE]
            /\ local_queue' = ProcSched(local_queue, c)
            /\ pc' = [pc EXCEPT ![c] = "susp"]
       ELSE /\ pc' = [pc EXCEPT ![c] = "run"]
            /\ UNCHANGED <<schedCalled, local_queue>>
    /\ UNCHANGED nonRsVars
    /\ UNCHANGED <<mask, slot, lock, waitKind, ioRes, guard, rpc, rEvents,
                   handles, io_handler_queue, global_queue, consumed,
                   delivered, yielded, everWaited, owed>>

\* Handler::ready -> notify, line 171: the reactor takes the spinlock.
ReadyLock(events) ==
    /\ rpc = "idle"
    /\ SpinAcquire
    /\ rEvents' = events
    /\ rpc' = "locked"
    /\ UNCHANGED nonRsVars
    /\ UNCHANGED <<mask, slot, pc, waitKind, ioOp, ioRes, guard, handles,
                   io_handler_queue, global_queue, local_queue, consumed,
                   delivered, yielded, everWaited, schedCalled, owed>>

\* notify, lines 172-188: the loop, then the guard is dropped on return.
ReadyNotify ==
    /\ rpc = "locked"
    /\ LET r == Notify(mask, slot, rEvents) IN
       /\ mask' = r.mask
       /\ slot' = r.slot
       /\ handles' = r.handles
       /\ delivered' = [c \in Coros |->
                          delivered[c] \/ c \in SeqToSet(r.handles)]
       /\ owed' = owed \cup { i \in rEvents : slot[i] = NoHandle }
    /\ SpinRelease
    /\ rEvents' = {}
    /\ rpc' = "push"
    /\ UNCHANGED nonRsVars
    /\ UNCHANGED <<pc, waitKind, ioOp, ioRes, guard,
                   io_handler_queue, global_queue, local_queue, consumed,
                   yielded, everWaited, schedCalled>>

\* Handler::ready, lines 673-678: the handles go to io_handler_queue.
ReadyPush ==
    /\ rpc = "push"
    /\ io_handler_queue' = io_handler_queue \o handles
    /\ handles' = <<>>
    /\ rpc' = "idle"
    /\ UNCHANGED nonRsVars
    /\ UNCHANGED <<mask, slot, lock, pc, waitKind, ioOp, ioRes, guard,
                   rEvents, global_queue, local_queue, consumed, delivered,
                   yielded, everWaited, schedCalled, owed>>

\* Scheduler::append_io_handler_to_global_queue, after the reactor tick.
SpliceIoHandler ==
    /\ rpc = "idle"
    /\ io_handler_queue # <<>>
    /\ global_queue' = global_queue \o io_handler_queue
    /\ io_handler_queue' = <<>>
    /\ UNCHANGED nonRsVars
    /\ UNCHANGED <<mask, slot, lock, pc, waitKind, ioOp, ioRes, guard, rpc,
                   rEvents, handles, local_queue, consumed, delivered,
                   yielded, everWaited, schedCalled, owed>>

\* Where a resumed coroutine continues: after sched() in user code,
\* after park_with inside wait.
ResumePoint(c) == IF ioOp[c] = "none" THEN "run" ELSE "wait_ret"

\* A worker pops a handle from its local queue and resumes it.
ResumeLocal ==
    /\ local_queue # <<>>
    /\ pc[Head(local_queue)] = "susp"
    /\ pc' = [pc EXCEPT ![Head(local_queue)] = ResumePoint(Head(local_queue))]
    /\ local_queue' = Tail(local_queue)
    /\ UNCHANGED nonRsVars
    /\ UNCHANGED <<mask, slot, lock, waitKind, ioOp, ioRes, guard, rpc,
                   rEvents, handles, io_handler_queue, global_queue,
                   consumed, delivered, yielded, everWaited, schedCalled,
                   owed>>

\* A worker pops a handle from the global queue and resumes it.
ResumeGlobal ==
    /\ global_queue # <<>>
    /\ pc[Head(global_queue)] = "susp"
    /\ pc' = [pc EXCEPT ![Head(global_queue)] = ResumePoint(Head(global_queue))]
    /\ global_queue' = Tail(global_queue)
    /\ UNCHANGED nonRsVars
    /\ UNCHANGED <<mask, slot, lock, waitKind, ioOp, ioRes, guard, rpc,
                   rEvents, handles, io_handler_queue, local_queue,
                   consumed, delivered, yielded, everWaited, schedCalled,
                   owed>>

\* Steps of wait, of the reactor and of the workers, common to SpecRS and
\* SpecIO, for the coroutines of S.
WaitSteps(S) ==
    \/ \E c \in S : WaitLock(c)
    \/ \E c \in S : WaitCheck(c)
    \/ \E c \in S : ParkLock(c)
    \/ \E c \in S : ParkCheck(c)
    \/ \E c \in S : ParkUnlock(c)
    \/ \E c \in S : WaitReturn(c)
    \/ ReadyNotify
    \/ ReadyPush
    \/ SpliceIoHandler
    \/ ResumeLocal
    \/ ResumeGlobal

\* The kinds the I/O adapter waits for, and the kinds exercised here.
IoKinds == {Readable, Writable}

NextRS ==
    \/ \E c \in Coros, k \in IoKinds : CallWait(c, k)
    \/ \E c \in Coros, k \in IoKinds : MakeReady(c, k)
    \/ \E events \in (SUBSET IoKinds) \ {{}} : ReadyLock(events)
    \/ WaitSteps(Coros)

SpecRS == InitRS /\ [][NextRS]_vars

IoCoros == 1 .. NumIoCoros

NextIO ==
    \/ \E c \in IoCoros, o \in IoOps : IoStart(c, o)
    \/ \E c \in IoCoros, r \in IoOutcomes : IoCall(c, r)
    \/ \E c \in IoCoros : IoReturn(c)
    \/ \E events \in (SUBSET IoKinds) \ {{}} : ReadyLock(events)
    \/ WaitSteps(IoCoros)

SpecIO == InitRS /\ [][NextIO]_vars

\* =================================================================
\*  Spec: coroutines on workers, the message channel and the reactor loop
\* =================================================================
\* The state when the loop of Scheduler::run starts: the <main> coroutine
\* was pushed onto the global queue (line 307), the workers are running.
Init ==
    /\ InitRe
    /\ InitJoin
    /\ InitRunLoop
    /\ InitAux
    /\ mask = {}
    /\ slot = [k \in Kinds |-> NoHandle]
    /\ lock = FALSE
    /\ pc = [c \in Coros |-> "run"]
    /\ waitKind = [c \in Coros |-> Readable]
    /\ ioOp = [c \in Coros |-> "none"]
    /\ ioRes = [c \in Coros |-> "none"]
    /\ guard = [c \in Coros |-> FALSE]
    /\ rpc = "idle"
    /\ rEvents = {}
    /\ handles = <<>>
    /\ io_handler_queue = <<>>
    /\ global_queue = <<Main>>
    /\ local_queue = <<>>
    /\ consumed = [c \in Coros |-> FALSE]
    /\ delivered = [c \in Coros |-> FALSE]
    /\ yielded = [c \in Coros |-> FALSE]
    /\ everWaited = [c \in Coros |-> FALSE]
    /\ schedCalled = [c \in Coros |-> FALSE]
    /\ owed = {}

\* A worker pops the head of its local queue and resumes it; the call the
\* coroutine was suspended in returns.
WorkerRunLocal ==
    /\ WorkerFree
    /\ local_queue # <<>>
    /\ tpc' = [tpc EXCEPT ![Head(local_queue)] = "run"]
    /\ op' = [op EXCEPT ![Head(local_queue)] = "none"]
    /\ local_queue' = Tail(local_queue)
    /\ UNCHANGED <<pending, ret, fd, channel, evRunning, rphase, slab,
                   slabCap, kernel, rs, timers, result, dropped,
                   io_handler_queue, global_queue, rsOnlyVars, joinVars, runVars>>

\* A worker takes the head of the global queue and resumes it.  A resumed
\* drop of a GenericEvented closes the descriptor, which leaves the poller,
\* and releases the last reference to its ReadyStates.
WorkerRunGlobal ==
    /\ WorkerFree
    /\ global_queue # <<>>
    /\ LET t == Head(global_queue) IN
       /\ tpc' = [tpc EXCEPT ![t] = "run"]
       /\ op' = [op EXCEPT ![t] = "none"]
       /\ IF op[t] = "deregister"
          THEN /\ kernel' = kernel \ {fd[t]}
               /\ fd' = [fd EXCEPT ![t] = NoToken]
               /\ rs' = [rs EXCEPT ![fd[t]] = NewReadyStates]
          ELSE UNCHANGED <<kernel, fd, rs>>
    /\ global_queue' = Tail(global_queue)
    /\ UNCHANGED <<pending, ret, channel, evRunning, rphase, slab,
                   slabCap, timers, result, dropped,
                   io_handler_queue, local_queue, rsOnlyVars, joinVars, runVars>>

\* Scheduler::spawn_opts, lines 385-400: a join channel pair, a wrapper
\* around the entry function f (o is what catch_unwind(f) will yield), and
\* Processor::spawn_opts, which puts the new coroutine on the spawner's
\* local queue; the spawner receives the JoinHandle.
Spawn(t, u, o) ==
    /\ tpc[t] = "run"
    /\ tpc[u] = "absent"
    /\ tpc' = [tpc EXCEPT ![u] = "susp"]
    /\ entry' = [entry EXCEPT ![u] = o]
    /\ jh' = [jh EXCEPT ![u] = t]
    /\ local_queue' = Append(local_queue, u)
    /\ UNCHANGED <<op, pending, ret, fd, channel, evRunning, rphase, slab,
                   slabCap, kernel, rs, timers, result, dropped,
                   io_handler_queue, global_queue, rsOnlyVars, jchan,
                   jwait, joinRes, runVars>>

\* JoinHandle::join: self.result.pop() on an empty channel suspends the
\* consumer; its handle stays in the channel until the producer pushes.
JoinPark(t, u) ==
    /\ tpc[t] = "run"
    /\ jh[u] = t
    /\ jchan[u] = NoOutcome
    /\ jwait' = [jwait EXCEPT ![u] = t]
    /\ tpc' = [tpc EXCEPT ![t] = "susp"]
    /\ op' = [op EXCEPT ![t] = "join"]
    /\ UNCHANGED <<pending, ret, fd, channel, evRunning, rphase, slab,
                   slabCap, kernel, rs, timers, result, dropped,
                   io_handler_queue, global_queue, local_queue, rsOnlyVars,
                   entry, jchan, jh, joinRes, runVars>>

\* JoinHandle::join: self.result.pop() takes the result out of the channel;
\* the JoinHandle is consumed.
Join(t, u) ==
    /\ tpc[t] = "run"
    /\ jh[u] = t
    /\ jchan[u] # NoOutcome
    /\ joinRes' = [joinRes EXCEPT ![u] = jchan[u]]
    /\ jchan' = [jchan EXCEPT ![u] = NoOutcome]
    /\ jh' = [jh EXCEPT ![u] = NoTask]
    /\ UNCHANGED <<tpc, op, pending, ret, fd, channel, evRunning, rphase,
                   slab, slabCap, kernel, rs, timers, result, dropped,
                   io_handler_queue, global_queue, local_queue, rsOnlyVars,
                   entry, jwait, runVars>>

\* park_with(|_, coro| { msg = Message::..; send loop }): the coroutine is
\* switched out and the callback starts with the handle inside msg.
ParkToSend(t, o, msg) ==
    /\ tpc[t] = "run"
    /\ tpc' = [tpc EXCEPT ![t] = "send"]
    /\ op' = [op EXCEPT ![t] = o]
    /\ pending' = [pending EXCEPT ![t] = msg]
    /\ UNCHANGED <<fd, channel, evRunning, rphase, slab, slabCap, kernel, rs,
                   timers, result, dropped, io_handler_queue, global_queue,
                   local_queue, rsOnlyVars, joinVars, runVars>>

\* Scheduler::sleep_ms(delay): `let mut ret = Ok(())`, then park.
SleepMs(t, delay) ==
    /\ ret' = [ret EXCEPT ![t] = "ok"]
    /\ ParkToSend(t, "sleep", TimerMessage(t, delay))

\* Scheduler::register (GenericEvented::new): ret starts as Err(os error 0).
Register(t) ==
    /\ fd[t] = NoToken
    /\ ret' = [ret EXCEPT ![t] = "err"]
    /\ ParkToSend(t, "register", RegisterMessage(t))

\* Scheduler::deregister (Drop for GenericEvented): ret starts as Ok(()).
Deregister(t) ==
    /\ fd[t] # NoToken
    /\ ret' = [ret EXCEPT ![t] = "ok"]
    /\ ParkToSend(t, "deregister", DeregisterMessage(t, fd[t]))

\* The send loops of register, deregister and sleep_ms: a send that finds
\* the channel full hands the message back and is retried; the loop ends
\* when the channel accepts it.
SendRetry(t) ==
    /\ tpc[t] = "send"
    /\ ~ChannelFull
    /\ channel' = Append(channel, pending[t])
    /\ pending' = [pending EXCEPT ![t] = NoMsg]
    /\ tpc' = [tpc EXCEPT ![t] = "susp"]
    /\ UNCHANGED <<op, ret, fd, evRunning, rphase, slab, slabCap, kernel, rs,
                   timers, result, dropped, io_handler_queue, global_queue,
                   local_queue, rsOnlyVars, joinVars, runVars>>

\* ReadyStates::wait on the task's own registration, taken as one step
\* under the spinlock: consume the bit, or park in the slot.
WaitOwn(t, k) ==
    /\ tpc[t] = "run"
    /\ fd[t] # NoToken
    /\ IF IntoEventSet(k) \subseteq rs[fd[t]].mask
       THEN /\ rs' = [rs EXCEPT ![fd[t]].mask = @ \ IntoEventSet(k)]
            /\ UNCHANGED <<tpc, op>>
       ELSE /\ rs' = [rs EXCEPT ![fd[t]].slot[k] = t]
            /\ tpc' = [tpc EXCEPT ![t] = "susp"]
            /\ op' = [op EXCEPT ![t] = "wait"]
    /\ UNCHANGED <<pending, ret, fd, channel, evRunning, rphase, slab,
                   slabCap, kernel, timers, result, dropped,
                   io_handler_queue, global_queue, local_queue, rsOnlyVars, joinVars, runVars>>

\* The wrapper of spawn_opts, lines 390-395: run the entry function under
\* catch_unwind and push the result, value or panic, to the join channel,
\* which makes a parked consumer ready; the coroutine is finished and its
\* handle destroyed.
Finish(t) ==
    /\ t # Main
    /\ tpc[t] = "run"
    /\ fd[t] = NoToken
    /\ tpc' = [tpc EXCEPT ![t] = "done"]
    /\ jchan' = [jchan EXCEPT ![t] = WrapperPush(entry[t])]
    /\ jwait' = [jwait EXCEPT ![t] = NoTask]
    /\ local_queue' = IF jwait[t] # NoTask
                       THEN ProcReady(local_queue, jwait[t])
                       ELSE local_queue
    /\ UNCHANGED <<op, pending, ret, fd, channel, evRunning, rphase, slab,
                   slabCap, kernel, rs, timers, result, dropped,
                   io_handler_queue, global_queue, rsOnlyVars,
                   entry, jh, joinRes, runVars>>

\* The wrapper of <main>, lines 294-301: store the outcome of main_fn, then
\* `let _ = sender.send(Message::Shutdown)`: one attempt, its error ignored.
MainFinish(o) ==
    /\ tpc[Main] = "run"
    /\ fd[Main] = NoToken
    /\ mainOut' = o
    /\ result' = StoreResult(o)
    /\ IF ChannelFull
       THEN /\ dropped' = Append(dropped, ShutdownMessage)
            /\ UNCHANGED channel
       ELSE /\ channel' = Append(channel, ShutdownMessage)
            /\ UNCHANGED dropped
    /\ tpc' = [tpc EXCEPT ![Main] = "done"]
    /\ UNCHANGED <<op, pending, ret, fd, evRunning, rphase, slab, slabCap,
                   kernel, rs, timers, io_handler_queue, global_queue,
                   local_queue, rsOnlyVars, joinVars, runpc, hook, savedHook,
                   priorHook, machines, drained, wstate, procMsg, runRet,
                   is_shutting_down, idle_flag>>

\* Handler::ready(token, events): look the ReadyStates up in the slab
\* (`expect("Token must be registered")`), notify it and push the handles
\* it returns onto io_handler_queue.
HandlerReady(token, events) ==
    /\ rphase = "io"
    /\ token \in kernel
    /\ IF token \in slab
       THEN LET r == Notify(rs[token].mask, rs[token].slot, events) IN
            /\ rs' = [rs EXCEPT ![token] = [mask |-> r.mask, slot |-> r.slot]]
            /\ io_handler_queue' = io_handler_queue \o r.handles
            /\ UNCHANGED rphase
       ELSE /\ rphase' = "panicked"
            /\ UNCHANGED <<rs, io_handler_queue>>
    /\ UNCHANGED <<tpc, op, pending, ret, fd, channel, evRunning, slab,
                   slabCap, kernel, timers, result, dropped, global_queue,
                   local_queue, rsOnlyVars, joinVars, runVars>>

\* A timeout handler that forgets the handle of the timer that fired.
HandlerTimeout_Lost(e) ==
    /\ rphase = "timers"
    /\ e \in timers
    /\ e.left = 0
    /\ timers' = timers \ {e}
    /\ UNCHANGED <<tpc, op, pending, ret, fd, channel, evRunning, rphase,
                   slab, slabCap, kernel, rs, result, dropped,
                   io_handler_queue, global_queue, local_queue, rsOnlyVars,
                   joinVars, runVars>>

\* Handler::timeout(token): the token is the handle the timer kept.
HandlerTimeout(e) ==
    /\ rphase = "timers"
    /\ e \in timers
    /\ e.left = 0
    /\ timers' = timers \ {e}
    /\ io_handler_queue' = Append(io_handler_queue, e.coro)
    /\ UNCHANGED <<tpc, op, pending, ret, fd, channel, evRunning, rphase,
                   slab, slabCap, kernel, rs, result, dropped,
                   global_queue, local_queue, rsOnlyVars, joinVars, runVars>>

\* A slab that offers its first index whether or not it is taken.
FreeToken_First == CHOOSE k \in Tokens : \A j \in Tokens : k <= j
\* The slab entry insert_with_opt offers: a free index below the capacity.
FreeToken == CHOOSE k \in Tokens : k \notin slab /\ \A j \in Tokens : j \notin slab => k <= j

\* A Register arm that keeps the slab entry although the callback failed.
NotifyRegister_KeepOnFail(msg, ok) ==
    /\ slabCap' = IF slabCap - Cardinality(slab) = 0
                  THEN slabCap + Cardinality(slab) ELSE slabCap
    /\ slab' = slab \cup {FreeToken}
    /\ IF ok
       THEN /\ kernel' = kernel \cup {FreeToken}
            /\ rs' = [rs EXCEPT ![FreeToken] = NewReadyStates]
            /\ ret' = [ret EXCEPT ![msg.coro] = "ok"]
            /\ fd' = [fd EXCEPT ![msg.coro] = FreeToken]
       ELSE /\ ret' = [ret EXCEPT ![msg.coro] = "err"]
            /\ UNCHANGED <<kernel, rs, fd>>
    /\ io_handler_queue' = Append(io_handler_queue, msg.coro)
    /\ UNCHANGED <<timers, evRunning>>

\* Handler::notify, Message::Register: grow a full slab to twice its size,
\* offer a Token and a fresh ReadyStates to the callback, keep the entry iff
\* the callback (EventLoop::register) succeeded, re-queue the coroutine.
NotifyRegister(msg, ok) ==
    /\ slabCap' = IF slabCap - Cardinality(slab) = 0
                  THEN slabCap + Cardinality(slab) ELSE slabCap
    /\ IF ok
       THEN /\ slab' = slab \cup {FreeToken}
            /\ kernel' = kernel \cup {FreeToken}
            /\ rs' = [rs EXCEPT ![FreeToken] = NewReadyStates]
            /\ ret' = [ret EXCEPT ![msg.coro] = "ok"]
            /\ fd' = [fd EXCEPT ![msg.coro] = FreeToken]
       ELSE /\ ret' = [ret EXCEPT ![msg.coro] = "err"]
            /\ UNCHANGED <<slab, kernel, rs, fd>>
    /\ io_handler_queue' = Append(io_handler_queue, msg.coro)
    /\ UNCHANGED <<timers, evRunning>>

\* Handler::notify, Message::Deregister: remove the slab entry, run the
\* callback (EventLoop::deregister), re-queue the coroutine.
NotifyDeregister(msg, ok) ==
    /\ slab' = slab \ {msg.token}
    /\ IF ok
       THEN /\ kernel' = kernel \ {msg.token}
            /\ UNCHANGED ret
       ELSE /\ ret' = [ret EXCEPT ![msg.coro] = "err"]
            /\ UNCHANGED kernel
    /\ io_handler_queue' = Append(io_handler_queue, msg.coro)
    /\ UNCHANGED <<slabCap, rs, fd, timers, evRunning>>

\* A Timer arm that re-queues the coroutine whether or not the timer was
\* installed.
NotifyTimer_AlsoQueue(msg, ok) ==
    /\ IF ok
       THEN /\ timers' = timers \cup {[coro |-> msg.coro, left |-> msg.delay]}
            /\ UNCHANGED ret
       ELSE /\ ret' = [ret EXCEPT ![msg.coro] = "err"]
            /\ UNCHANGED timers
    /\ io_handler_queue' = Append(io_handler_queue, msg.coro)
    /\ UNCHANGED <<slab, slabCap, kernel, rs, fd, evRunning>>

\* Handler::notify, Message::Timer: on success the timer keeps the handle;
\* on failure the error is written to the result slot and the coroutine is
\* re-queued at once.
NotifyTimer(msg, ok) ==
    /\ IF ok
       THEN /\ timers' = timers \cup {[coro |-> msg.coro, left |-> msg.delay]}
            /\ UNCHANGED <<ret, io_handler_queue>>
       ELSE /\ ret' = [ret EXCEPT ![msg.coro] = "err"]
            /\ io_handler_queue' = Append(io_handler_queue, msg.coro)
            /\ UNCHANGED timers
    /\ UNCHANGED <<slab, slabCap, kernel, rs, fd, evRunning>>

\* Handler::notify, Message::Shutdown: event_loop.shutdown()
NotifyShutdown ==
    /\ evRunning' = FALSE
    /\ UNCHANGED <<slab, slabCap, kernel, rs, fd, timers, ret,
                   io_handler_queue>>

\* Handler::notify on the message at the head of the channel.
HandlerNotify(ok) ==
    /\ rphase = "msgs"
    /\ channel # <<>>
    /\ LET msg == Head(channel) IN
       CASE msg.type = "Register" -> NotifyRegister(msg, ok)
         [] msg.type = "Deregister" -> NotifyDeregister(msg, ok)
         [] msg.type = "Timer" -> NotifyTimer(msg, ok)
         [] OTHER -> ok /\ NotifyShutdown
    /\ channel' = Tail(channel)
    /\ UNCHANGED <<tpc, op, pending, rphase, result, dropped, global_queue,
                   local_queue, rsOnlyVars, joinVars, runVars>>

\* EventLoop::run_once moves from readiness events to messages to timers.
TickPhase ==
    /\ rphase \in {"io", "msgs"}
    /\ rphase' = IF rphase = "io" THEN "msgs" ELSE "timers"
    /\ UNCHANGED <<tpc, op, pending, ret, fd, channel, evRunning, slab,
                   slabCap, kernel, rs, timers, result, dropped,
                   io_handler_queue, global_queue, local_queue, rsOnlyVars, joinVars, runVars>>

\* The end of one turn of the loop of Scheduler::run, lines 330-334:
\* run_once has returned, append_io_handler_to_global_queue splices the
\* hand-off queue, the loop tests is_running() and sleeps; the timers see
\* one more tick of time.
TickEnd ==
    /\ rphase = "timers"
    /\ \A e \in timers : e.left > 0
    /\ global_queue' = global_queue \o io_handler_queue
    /\ io_handler_queue' = <<>>
    /\ timers' = { [coro |-> e.coro, left |-> e.left - 1] : e \in timers }
    /\ rphase' = IF evRunning THEN "io" ELSE "stopped"
    /\ UNCHANGED <<tpc, op, pending, ret, fd, channel, evRunning, slab,
                   slabCap, kernel, rs, result, dropped, local_queue,
                   rsOnlyVars, joinVars, runVars>>

Next ==
    \/ WorkerRunLocal
    \/ WorkerRunGlobal
    \/ \E t, u \in ReTasks : Spawn(t, u, [kind |-> "Ok", of |-> u])
    \/ \E t \in ReTasks, d \in Delays : SleepMs(t, d)
    \/ \E t \in ReTasks : Register(t)
    \/ \E t \in ReTasks : Deregister(t)
    \/ \E t \in ReTasks : SendRetry(t)
    \/ \E t \in ReTasks, k \in IoKinds : WaitOwn(t, k)
    \/ \E t \in ReTasks : Finish(t)
    \/ \E o \in Outcomes(Main) : MainFinish(o)
    \/ \E k \in Tokens, events \in (SUBSET IoKinds) \ {{}} : HandlerReady(k, events)
    \/ \E e \in timers : HandlerTimeout(e)
    \/ \E ok \in BOOLEAN : HandlerNotify(ok)
    \/ TickPhase
    \/ TickEnd

Spec == Init /\ [][Next]_vars

\* Spec with the scheduling the code gives: the loop of run keeps calling
\* run_once, which handles the messages and the timers that are due, and a
\* send loop keeps retrying.
SpecLive ==
    /\ Init
    /\ [][Next]_vars
    /\ WF_vars(TickPhase)
    /\ WF_vars(TickEnd)
    /\ SF_vars(\E ok \in BOOLEAN : HandlerNotify(ok))
    /\ WF_vars(\E e \in timers : HandlerTimeout(e))
    /\ \A t \in ReTasks : SF_vars(SendRetry(t))

\* =================================================================
\*  SpecRun: Scheduler::run from entry to return, with spawn and join
\* =================================================================
\* The state when Scheduler::run is entered: no coroutine exists, no worker
\* thread exists, the hook is whatever the program installed before.
InitRun ==
    /\ mask = {}
    /\ slot = [k \in Kinds |-> NoHandle]
    /\ lock = FALSE
    /\ pc = [c \in Coros |-> "run"]
    /\ waitKind = [c \in Coros |-> Readable]
    /\ ioOp = [c \in Coros |-> "none"]
    /\ ioRes = [c \in Coros |-> "none"]
    /\ guard = [c \in Coros |-> FALSE]
    /\ rpc = "idle"
    /\ rEvents = {}
    /\ handles = <<>>
    /\ io_handler_queue = <<>>
    /\ global_queue = <<>>
    /\ local_queue = <<>>
    /\ consumed = [c \in Coros |-> FALSE]
    /\ delivered = [c \in Coros |-> FALSE]
    /\ yielded = [c \in Coros |-> FALSE]
    /\ everWaited = [c \in Coros |-> FALSE]
    /\ schedCalled = [c \in Coros |-> FALSE]
    /\ owed = {}
    /\ tpc = [t \in Tasks |-> "absent"]
    /\ op = [t \in Tasks |-> "none"]
    /\ pending = [t \in Tasks |-> NoMsg]
    /\ ret = [t \in Tasks |-> "none"]
    /\ fd = [t \in Tasks |-> NoToken]
    /\ channel = <<>>
    /\ evRunning = FALSE
    /\ rphase = "setup"
    /\ slab = {}
    /\ slabCap = SlabInitialCap
    /\ kernel = {}
    /\ rs = [k \in Tokens |-> NewReadyStates]
    /\ timers = {}
    /\ result = NoOutcome
    /\ dropped = <<>>
    /\ InitJoin
    /\ InitAux
    /\ runpc = "take_hook"
    /\ priorHook \in {StdHook, CustomHook}
    /\ hook = priorHook
    /\ savedHook = NoHook
    /\ machines = <<>>
    /\ drained = <<>>
    /\ wstate = [w \in Workers |-> "unborn"]
    /\ procMsg = [w \in Workers |-> FALSE]
    /\ runRet = NoOutcome
    /\ mainOut = NoOutcome
    /\ is_shutting_down = FALSE
    /\ idle_flag = FALSE

\* Line 268: `let default_handler = panic::take_hook()`: the registered hook
\* is moved out and the standard hook takes its place.
RunTakeHook ==
    /\ runpc = "take_hook"
    /\ savedHook' = hook
    /\ hook' = StdHook
    /\ runpc' = "set_hook"
    /\ UNCHANGED <<rsVars, reVars, joinVars, priorHook, machines, drained,
                   wstate, procMsg, runRet, mainOut, is_shutting_down,
                   idle_flag>>

\* Lines 269-282: panic::set_hook of a closure that owns default_handler.
RunSetHook ==
    /\ runpc = "set_hook"
    /\ hook' = CoroutineHook(savedHook)
    /\ runpc' = "create_loop"
    /\ UNCHANGED <<rsVars, reVars, joinVars, savedHook, priorHook, machines,
                   drained, wstate, procMsg, runRet, mainOut,
                   is_shutting_down, idle_flag>>

\* Lines 286-291: EventLoop::new(), its channel, `let mut result = None`.
RunCreateLoop ==
    /\ runpc = "create_loop"
    /\ evRunning' = TRUE
    /\ channel' = <<>>
    /\ result' = NoOutcome
    /\ runpc' = "spawn_main"
    /\ UNCHANGED <<rsVars, joinVars, tpc, op, pending, ret, fd, rphase, slab,
                   slabCap, kernel, rs, timers, dropped, hook, savedHook,
                   priorHook, machines, drained, wstate, procMsg, runRet,
                   mainOut, is_shutting_down, idle_flag>>

\* Lines 292-308: the <main> coroutine is created around the wrapper and
\* pushed onto the global queue.
RunSpawnMain ==
    /\ runpc = "spawn_main"
    /\ tpc' = [tpc EXCEPT ![Main] = "susp"]
    /\ global_queue' = Append(global_queue, Main)
    /\ runpc' = "spawn_machines"
    /\ UNCHANGED <<rsOnlyVars, io_handler_queue, local_queue, joinVars, op,
                   pending, ret, fd, channel, evRunning, rphase, slab,
                   slabCap, kernel, rs, timers, result, dropped, hook,
                   savedHook, priorHook, machines, drained, wstate, procMsg,
                   runRet, mainOut, is_shutting_down, idle_flag>>

\* Lines 318-320: machines.push(Processor::spawn(self, tid, ..)) for the
\* next tid; the new thread starts.
RunSpawnMachine ==
    /\ runpc = "spawn_machines"
    /\ Len(machines) < NumWorkers
    /\ machines' = Append(machines, Len(machines))
    /\ wstate' = [wstate EXCEPT ![Len(machines)] = "start"]
    /\ UNCHANGED <<rsVars, reVars, joinVars, runpc, hook, savedHook,
                   priorHook, drained, procMsg, runRet, mainOut,
                   is_shutting_down, idle_flag>>

\* Line 325: the loop over tid is over and run arrives at barrier.wait().
RunBarrierWait ==
    /\ runpc = "spawn_machines"
    /\ Len(machines) = NumWorkers
    /\ runpc' = "barrier"
    /\ UNCHANGED <<rsVars, reVars, joinVars, hook, savedHook, priorHook,
                   machines, drained, wstate, procMsg, runRet, mainOut,
                   is_shutting_down, idle_flag>>

\* A new worker thread builds its Processor and arrives at the startup
\* barrier.
WorkerStart(w) ==
    /\ wstate[w] = "start"
    /\ wstate' = [wstate EXCEPT ![w] = "barrier"]
    /\ UNCHANGED <<rsVars, reVars, joinVars, runpc, hook, savedHook,
                   priorHook, machines, drained, procMsg, runRet, mainOut,
                   is_shutting_down, idle_flag>>

\* Barrier::new(expected_worker_count + 1) releases when run and every
\* worker have arrived: the workers enter Processor::schedule, run enters
\* its loop (line 330).
BarrierRelease ==
    /\ runpc = "barrier"
    /\ \A w \in Workers : wstate[w] = "barrier"
    /\ wstate' = [w \in Workers |-> "loop"]
    /\ runpc' = "loop"
    /\ rphase' = "io"
    /\ UNCHANGED <<rsVars, joinVars, tpc, op, pending, ret, fd, channel,
                   evRunning, slab, slabCap, kernel, rs, timers, result,
                   dropped, hook, savedHook, priorHook, machines, drained,
                   procMsg, runRet, mainOut, is_shutting_down, idle_flag>>

\* A run that sends Shutdown to the workers without waiting for the loop
\* to end.
RunSendShutdown_Early ==
    /\ runpc = "loop"
    /\ procMsg' = [w \in Workers |-> w \in SeqToSet(machines)]
    /\ runpc' = "signal"
    /\ UNCHANGED <<rsVars, reVars, joinVars, hook, savedHook, priorHook,
                   machines, drained, wstate, runRet, mainOut,
                   is_shutting_down, idle_flag>>

\* Lines 336-343: the loop has ended; ProcMessage::Shutdown goes to every
\* Machine of machines.iter().
RunSendShutdown ==
    /\ runpc = "loop"
    /\ rphase = "stopped"
    /\ procMsg' = [w \in Workers |-> w \in SeqToSet(machines)]
    /\ runpc' = "signal"
    /\ UNCHANGED <<rsVars, reVars, joinVars, hook, savedHook, priorHook,
                   machines, drained, wstate, runRet, mainOut,
                   is_shutting_down, idle_flag>>

\* Lines 347-349: is_shutting_down, the idle flag, notify_all.
RunSignal ==
    /\ runpc = "signal"
    /\ is_shutting_down' = TRUE
    /\ idle_flag' = TRUE
    /\ runpc' = "drain"
    /\ UNCHANGED <<rsVars, reVars, joinVars, hook, savedHook, priorHook,
                   machines, drained, wstate, procMsg, runRet, mainOut>>

\* Line 353: machines.drain(..) sets the length of the vector to zero and
\* hands its elements to the Drain iterator.
RunDrain ==
    /\ runpc = "drain"
    /\ drained' = machines
    /\ machines' = <<>>
    /\ runpc' = "join"
    /\ UNCHANGED <<rsVars, reVars, joinVars, hook, savedHook, priorHook,
                   wstate, procMsg, runRet, mainOut, is_shutting_down,
                   idle_flag>>

\* Line 354: m.thread_handle.join() for the next Machine of the iterator;
\* join returns when that thread has ended.
RunJoin ==
    /\ runpc = "join"
    /\ drained # <<>>
    /\ wstate[Head(drained)] = "exited"
    /\ wstate' = [wstate EXCEPT ![Head(drained)] = "joined"]
    /\ drained' = Tail(drained)
    /\ UNCHANGED <<rsVars, reVars, joinVars, runpc, hook, savedHook,
                   priorHook, machines, procMsg, runRet, mainOut,
                   is_shutting_down, idle_flag>>

\* Line 360: `panic::take_hook();` the installed closure, and the
\* default_handler it owns, is moved out and dropped; the standard hook
\* takes its place.
RunRestoreHook ==
    /\ runpc = "join"
    /\ drained = <<>>
    /\ hook' = StdHook
    /\ runpc' = "unwrap"
    /\ UNCHANGED <<rsVars, reVars, joinVars, savedHook, priorHook, machines,
                   drained, wstate, procMsg, runRet, mainOut,
                   is_shutting_down, idle_flag>>

\* Line 362: result.unwrap(), which panics on None.
RunReturn ==
    /\ runpc = "unwrap"
    /\ runRet' = result
    /\ runpc' = IF result = NoOutcome THEN "panicked" ELSE "returned"
    /\ UNCHANGED <<rsVars, reVars, joinVars, hook, savedHook, priorHook,
                   machines, drained, wstate, procMsg, mainOut,
                   is_shutting_down, idle_flag>>

\* A worker between two coroutines receives ProcMessage::Shutdown(barrier)
\* and waits on the barrier.
WorkerGetShutdown(w) ==
    /\ wstate[w] = "loop"
    /\ procMsg[w]
    /\ WorkerFree
    /\ wstate' = [wstate EXCEPT ![w] = "stop"]
    /\ procMsg' = [procMsg EXCEPT ![w] = FALSE]
    /\ UNCHANGED <<rsVars, reVars, joinVars, runpc, hook, savedHook,
                   priorHook, machines, drained, runRet, mainOut,
                   is_shutting_down, idle_flag>>

\* Barrier::new(expected_worker_count) releases when every worker has
\* arrived; the worker thread ends.
WorkerExit(w) ==
    /\ wstate[w] = "stop"
    /\ \A v \in Workers : wstate[v] \in {"stop", "exited", "joined"}
    /\ wstate' = [wstate EXCEPT ![w] = "exited"]
    /\ UNCHANGED <<rsVars, reVars, joinVars, runpc, hook, savedHook,
                   priorHook, machines, drained, procMsg, runRet, mainOut,
                   is_shutting_down, idle_flag>>

NextRun ==
    \/ RunTakeHook
    \/ RunSetHook
    \/ RunCreateLoop
    \/ RunSpawnMain
    \/ RunSpawnMachine
    \/ RunBarrierWait
    \/ \E w \in Workers : WorkerStart(w)
    \/ BarrierRelease
    \/ WorkerRunLocal
    \/ WorkerRunGlobal
    \/ \E t, u \in Tasks : \E o \in Outcomes(u) : Spawn(t, u, o)
    \/ \E t, u \in Tasks : JoinPark(t, u)
    \/ \E t, u \in Tasks : Join(t, u)
    \/ \E t \in Tasks : Finish(t)
    \/ \E o \in Outcomes(Main) : MainFinish(o)
    \/ \E ok \in BOOLEAN : HandlerNotify(ok)
    \/ TickPhase
    \/ TickEnd
    \/ RunSendShutdown
    \/ RunSignal
    \/ RunDrain
    \/ RunJoin
    \/ RunRestoreHook
    \/ RunReturn
    \/ \E w \in Workers : WorkerGetShutdown(w)
    \/ \E w \in Workers : WorkerExit(w)

SpecRun == InitRun /\ [][NextRun]_vars

\* =================================================================
\*  A thread without a Processor calls into the scheduler while run is
\*  under way
\* =================================================================

\* Processor::current() on a thread that run did not start: the
\* thread-local is unset.
NoProcessor == NoToken
ProcessorCurrent == NoProcessor

\* Every such operation ends in the error value.
OutsideOutcome_AllErr(o, p) ==
    IF p = NoProcessor THEN "Err(Scheduler missing)" ELSE "proceeds"

\* What each operation does with Processor::current(): spawn unwraps
\* Scheduler::instance(), spawn_opts expects the Processor, park_with
\* unwraps the mapped Option, GenericEvented::new returns the error of
\* instance_or_err through try!.
OutsideOutcome(o, p) ==
    IF p # NoProcessor THEN "proceeds"
    ELSE IF o = "GenericEvented::new" THEN "Err(Scheduler missing)"
    ELSE "panic"

\* One call of operation o on the outside thread.  With no Processor each
\* of the four ends before it touches the scheduler: nothing is sent and
\* nothing is queued.
OutsideCall(o) ==
    /\ outside = NoCall
    /\ OutsideOutcome(o, ProcessorCurrent) # "proceeds"
    /\ outside' = [op |-> o, outcome |-> OutsideOutcome(o, ProcessorCurrent)]
    /\ UNCHANGED <<coreVars, seqVars, gqVars, spinVars, ticketVars,
                   parkVars>>

NextExt ==
    \/ NextRun
    \/ \E o \in OutsideOps : OutsideCall(o)

SpecExt == InitRun /\ [][NextExt]_vars

\* =================================================================
\*  The scheduler at rest, the starting point of the stand-alone
\*  specifications
\* =================================================================
InitCore ==
    /\ mask = {}
    /\ slot = [k \in Kinds |-> NoHandle]
    /\ lock = FALSE
    /\ pc = [c \in Coros |-> "run"]
    /\ waitKind = [c \in Coros |-> Readable]
    /\ ioOp = [c \in Coros |-> "none"]
    /\ ioRes = [c \in Coros |-> "none"]
    /\ guard = [c \in Coros |-> FALSE]
    /\ rpc = "idle"
    /\ rEvents = {}
    /\ handles = <<>>
    /\ io_handler_queue = <<>>
    /\ global_queue = <<>>
    /\ local_queue = <<>>
    /\ consumed = [c \in Coros |-> FALSE]
    /\ delivered = [c \in Coros |-> FALSE]
    /\ yielded = [c \in Coros |-> FALSE]
    /\ everWaited = [c \in Coros |-> FALSE]
    /\ schedCalled = [c \in Coros |-> FALSE]
    /\ owed = {}
    /\ InitRe
    /\ InitJoin
    /\ InitRunLoop

\* =================================================================
\*  SpecSeq: calls on one ReadyStates made one after another, each run
\*  to its end before the next starts
\* =================================================================
\* A wait that leaves the bit it found in the mask.
RemoveBit_Keep(m, event_set) == m
\* EventSet::remove, `inner.0.remove(event_set)`.
RemoveBit(m, event_set) == m \ event_set

\* The last two calls.
Last2(q) == IF Len(q) > 2 THEN Tail(q) ELSE q

\* One call, with the ReadyStates as it was before the call.
Call(name, c, event_set, parked) ==
    [op |-> name, coro |-> c, arg |-> event_set, mask |-> mask,
     slot |-> slot, parked |-> parked]

\* What the actions of SpecSeq leave alone.
seqFrame == <<lock, waitKind, ioOp, ioRes, guard, rpc, rEvents, handles,
              global_queue, local_queue, consumed, delivered, yielded,
              everWaited, schedCalled, owed, reVars, joinVars, runVars,
              gqVars, extVars, spinVars, ticketVars, parkVars>>

\* make_ready(k), lines 164-166.
SeqMakeReady(c, k) ==
    /\ pc[c] = "run"
    /\ mask' = mask \cup IntoEventSet(k)
    /\ trail' = Last2(Append(trail, Call("make_ready", c, IntoEventSet(k), FALSE)))
    /\ UNCHANGED <<slot, pc, io_handler_queue, seqFrame>>

\* wait(k), lines 140-161, with no other call in between: the bit is there
\* and is removed, or the park callback finds it still missing and stores
\* the handle (the handle it replaces is dropped).
SeqWait(c, k) ==
    /\ pc[c] = "run"
    /\ IF IntoEventSet(k) \subseteq mask
       THEN /\ mask' = RemoveBit(mask, IntoEventSet(k))
            /\ trail' = Last2(Append(trail, Call("wait", c, IntoEventSet(k), FALSE)))
            /\ UNCHANGED <<slot, pc>>
       ELSE /\ slot' = [slot EXCEPT ![k] = c]
            /\ pc' = [d \in Coros |->
                        IF d = c THEN "susp"
                        ELSE IF d = slot[k] THEN "dropped"
                        ELSE pc[d]]
            /\ trail' = Last2(Append(trail, Call("wait", c, IntoEventSet(k), TRUE)))
            /\ UNCHANGED mask
    /\ UNCHANGED <<io_handler_queue, seqFrame>>

\* Handler::ready, lines 666-679: notify, then the handles it returned go
\* to io_handler_queue.
SeqNotify(events) ==
    /\ LET r == Notify(mask, slot, events) IN
       /\ mask' = r.mask
       /\ slot' = r.slot
       /\ io_handler_queue' = io_handler_queue \o r.handles
    /\ trail' = Last2(Append(trail, Call("notify", NoHandle, events, FALSE)))
    /\ UNCHANGED <<pc, seqFrame>>

\* The handle at the head of io_handler_queue reaches a worker and its
\* coroutine runs again.
SeqResume ==
    /\ io_handler_queue # <<>>
    /\ pc' = [pc EXCEPT ![Head(io_handler_queue)] = "run"]
    /\ io_handler_queue' = Tail(io_handler_queue)
    /\ UNCHANGED <<mask, slot, trail, seqFrame>>

NextSeq ==
    \/ \E c \in Coros, k \in IoKinds : SeqMakeReady(c, k)
    \/ \E c \in Coros, k \in IoKinds : SeqWait(c, k)
    \/ \E events \in (SUBSET IoKinds) \ {{}} : SeqNotify(events)
    \/ SeqResume

\* The scheduler at rest, nothing queued and no lock held.
InitRest == InitCore /\ InitAux

SpecSeq == InitRest /\ [][NextSeq]_vars

\* =================================================================
\*  SpecGQ: pushes and splices on the global queue, the size cache and
\*  the unpark policy
\* =================================================================
\* A length taken before the handles were added.
QueueLen_Short(q) == IF q = <<>> THEN 0 ELSE Len(q) - 1
\* `let size = queue.len()` under the mutex.
QueueLen(q) == Len(q)

\* An unpark bound without the `+ 1`.
UnparkMax_NoPlusOne(size) == size \div (QUEUE_SIZE \div 2)
\* unpark_processors_with_queue_size: size / (QUEUE_SIZE / 2) + 1
UnparkMax(size) == size \div (QUEUE_SIZE \div 2) + 1

\* What the actions of SpecGQ leave alone.
\* A splice that puts the new handles ahead of the queued ones.
ListAppend_Front(q, other) == other \o q
\* queue.append(&mut other): the elements of other go to the tail.
ListAppend(q, other) == q \o other

gqFrame == <<mask, slot, lock, pc, waitKind, ioOp, ioRes, guard, rpc,
             rEvents, handles, local_queue, consumed, delivered, yielded,
             everWaited, schedCalled, owed, reVars, joinVars, runVars,
             seqVars, extVars, spinVars, ticketVars, parkVars>>

\* Handler::ready / timeout / notify on the run thread, inside run_once:
\* a handle is pushed onto io_handler_queue.
GqHandlerPush(h) ==
    /\ gpc[0] = "run"
    /\ Len(io_handler_queue) + Len(global_queue) < MaxGq
    /\ io_handler_queue' = Append(io_handler_queue, h)
    /\ UNCHANGED <<global_queue, gqVars, gqFrame>>

\* The lock of the global queue is taken: by push_global_queue(hdl) or
\* push_global_queue_iter(iter) on a worker (lines 551, 566), with the
\* handles it will add.
GqPushLock(th, n) ==
    /\ gpc[th] = "run"
    /\ gq_mutex = NoThread
    /\ Len(global_queue) + Len(io_handler_queue) + n <= MaxGq
    /\ gq_mutex' = th
    /\ gitems' = [gitems EXCEPT ![th] = [i \in 1 .. n |-> th]]
    /\ gpc' = [gpc EXCEPT ![th] = "locked"]
    /\ UNCHANGED <<global_queue, io_handler_queue, global_queue_size, gsize,
                   gidle, idle_processor_count, spinning_processor_count,
                   lastNotify, gqFrame>>

\* append_io_handler_to_global_queue, lines 578-580: nothing happens on an
\* empty io_handler_queue; otherwise the run thread takes the lock.
GqAppendLock ==
    /\ gpc[0] = "run"
    /\ io_handler_queue # <<>>
    /\ gq_mutex = NoThread
    /\ gq_mutex' = 0
    /\ gpc' = [gpc EXCEPT ![0] = "locked"]
    /\ UNCHANGED <<global_queue, io_handler_queue, global_queue_size, gitems,
                   gsize, gidle, idle_processor_count,
                   spinning_processor_count, lastNotify, gqFrame>>

\* queue.push_back(hdl) / queue.extend(iter) / queue.append(&mut
\* io_handler_queue), under the lock.
GqAdd(th) ==
    /\ gpc[th] = "locked"
    /\ IF th = 0
       THEN /\ global_queue' = ListAppend(global_queue, io_handler_queue)
            /\ io_handler_queue' = <<>>
       ELSE /\ global_queue' = global_queue \o gitems[th]
            /\ UNCHANGED io_handler_queue
    /\ gitems' = [gitems EXCEPT ![th] = <<>>]
    /\ gpc' = [gpc EXCEPT ![th] = "added"]
    /\ UNCHANGED <<gq_mutex, global_queue_size, gsize, gidle,
                   idle_processor_count, spinning_processor_count,
                   lastNotify, gqFrame>>

\* `let size = queue.len(); self.set_global_queue_size(size);` and the end
\* of the block, where the MutexGuard is dropped.
GqSetSize(th) ==
    /\ gpc[th] = "added"
    /\ gsize' = [gsize EXCEPT ![th] = QueueLen(global_queue)]
    /\ global_queue_size' = QueueLen(global_queue)
    /\ gq_mutex' = NoThread
    /\ gpc' = [gpc EXCEPT ![th] = "unpark"]
    /\ UNCHANGED <<global_queue, io_handler_queue, gitems, gidle,
                   idle_processor_count, spinning_processor_count,
                   lastNotify, gqFrame>>

\* unpark_processor_maybe, line 637: load idle_processor_count.
GqLoadIdle(th) ==
    /\ gpc[th] = "unpark"
    /\ gidle' = [gidle EXCEPT ![th] = idle_processor_count]
    /\ gpc' = [gpc EXCEPT ![th] = "loaded"]
    /\ UNCHANGED <<global_queue, io_handler_queue, gq_mutex,
                   global_queue_size, gitems, gsize, idle_processor_count,
                   spinning_processor_count, lastNotify, gqFrame>>

\* unpark_processor_maybe, lines 639-651: test max, the idle count and the
\* spinning count, and call notify_one cnt times.
GqNotify(th) ==
    /\ gpc[th] = "loaded"
    /\ LET max == UnparkMax(gsize[th])
           cnt == IF gidle[th] < max THEN gidle[th] ELSE max
       IN lastNotify' =
            [size |-> gsize[th], idle |-> gidle[th],
             spinning |-> spinning_processor_count, by |-> th,
             count |-> IF max > 0 /\ gidle[th] > 0
                          /\ spinning_processor_count = 0
                       THEN cnt ELSE 0]
    /\ gsize' = [gsize EXCEPT ![th] = 0]
    /\ gidle' = [gidle EXCEPT ![th] = 0]
    /\ gpc' = [gpc EXCEPT ![th] = "run"]
    /\ UNCHANGED <<global_queue, io_handler_queue, gq_mutex,
                   global_queue_size, gitems, idle_processor_count,
                   spinning_processor_count, gqFrame>>

\* park_processor, line 617: a worker without work counts itself idle.
GqPark(w) ==
    /\ gpc[w] = "run"
    /\ idle_processor_count' = idle_processor_count + 1
    /\ gpc' = [gpc EXCEPT ![w] = "parked"]
    /\ UNCHANGED <<global_queue, io_handler_queue, gq_mutex,
                   global_queue_size, gitems, gsize, gidle,
                   spinning_processor_count, lastNotify, gqFrame>>

\* park_processor, line 627: the wait is over.
GqUnpark(w) ==
    /\ gpc[w] = "parked"
    /\ idle_processor_count' = idle_processor_count - 1
    /\ gpc' = [gpc EXCEPT ![w] = "run"]
    /\ UNCHANGED <<global_queue, io_handler_queue, gq_mutex,
                   global_queue_size, gitems, gsize, gidle,
                   spinning_processor_count, lastNotify, gqFrame>>

\* inc_spinning, lines 605-607.
GqIncSpinning(w) ==
    /\ gpc[w] = "run"
    /\ spinning_processor_count' = spinning_processor_count + 1
    /\ gpc' = [gpc EXCEPT ![w] = "spinning"]
    /\ UNCHANGED <<global_queue, io_handler_queue, gq_mutex,
                   global_queue_size, gitems, gsize, gidle,
                   idle_processor_count, lastNotify, gqFrame>>

\* dec_spinning, lines 611-613.
GqDecSpinning(w) ==
    /\ gpc[w] = "spinning"
    /\ spinning_processor_count' = spinning_processor_count - 1
    /\ gpc' = [gpc EXCEPT ![w] = "run"]
    /\ UNCHANGED <<global_queue, io_handler_queue, gq_mutex,
                   global_queue_size, gitems, gsize, gidle,
                   idle_processor_count, lastNotify, gqFrame>>

NextGQ ==
    \/ \E h \in GqWorkers : GqHandlerPush(h)
    \/ \E w \in GqWorkers : GqPushLock(w, 1)
    \/ \E w \in GqWorkers : GqPushLock(w, QUEUE_SIZE \div 2)
    \/ GqAppendLock
    \/ \E th \in GqThreads : GqAdd(th)
    \/ \E th \in GqThreads : GqSetSize(th)
    \/ \E th \in GqThreads : GqLoadIdle(th)
    \/ \E th \in GqThreads : GqNotify(th)
    \/ \E w \in GqWorkers : GqPark(w)
    \/ \E w \in GqWorkers : GqUnpark(w)
    \/ \E w \in GqWorkers : GqIncSpinning(w)
    \/ \E w \in GqWorkers : GqDecSpinning(w)

SpecGQ == InitRest /\ [][NextGQ]_vars

\* =================================================================
\*  Spinlock: several threads calling lock, try_lock and dropping guards
\* =================================================================

\* An exchange that stores true whatever the flag was.
CompareExchangeWeak_Blind(flag, spurious) == [ok |-> TRUE, flag |-> TRUE]

\* compare_exchange_weak(false, true): stores true and returns Ok only when
\* the flag was false; the weak form may also fail when it was false.
CompareExchangeWeak(flag, spurious) ==
    IF flag = FALSE /\ ~spurious
    THEN [ok |-> TRUE, flag |-> TRUE]
    ELSE [ok |-> FALSE, flag |-> flag]

spinFrame == <<mask, slot, pc, waitKind, ioOp, ioRes, guard, rpc, rEvents,
               handles, global_queue, local_queue, io_handler_queue,
               consumed, delivered, yielded, everWaited, schedCalled, owed,
               reVars, joinVars, runVars, seqVars, gqVars, extVars,
               ticketVars, parkVars>>

\* try_lock, lines 62-70: one exchange, Some(guard) or None.
SpinTryLock(t, spurious) ==
    /\ spc[t] = "idle"
    /\ LET r == CompareExchangeWeak(lock, spurious)
       IN /\ lock' = r.flag
          /\ spc' = [spc EXCEPT ![t] = IF r.ok THEN "held" ELSE "idle"]
          /\ tryRes' = [tryRes EXCEPT ![t] = IF r.ok THEN "Some" ELSE "None"]
    /\ UNCHANGED <<backoff, spinFrame>>

\* lock, line 76: backoff starts at BACKOFF_BASE.
SpinLockEnter(t) ==
    /\ spc[t] = "idle"
    /\ spc' = [spc EXCEPT ![t] = "lock"]
    /\ backoff' = [backoff EXCEPT ![t] = BACKOFF_BASE]
    /\ tryRes' = [tryRes EXCEPT ![t] = "none"]
    /\ UNCHANGED <<lock, spinFrame>>

\* lock, lines 79-92: one turn of the while loop; a failed exchange spins
\* and doubles backoff up to BACKOFF_CEILING, a successful one returns the
\* guard (the local backoff is gone then, the model resets it).
SpinLockTurn(t, spurious) ==
    /\ spc[t] = "lock"
    /\ LET r == CompareExchangeWeak(lock, spurious)
       IN /\ lock' = r.flag
          /\ spc' = [spc EXCEPT ![t] = IF r.ok THEN "held" ELSE "lock"]
          /\ backoff' =
                [backoff EXCEPT ![t] =
                    IF r.ok THEN BACKOFF_BASE
                    ELSE IF @ # BACKOFF_CEILING THEN @ * 2 ELSE @]
    /\ UNCHANGED <<tryRes, spinFrame>>

\* Drop for SpinlockGuard, lines 115-119.
SpinDrop(t) ==
    /\ spc[t] = "held"
    /\ SpinRelease
    /\ spc' = [spc EXCEPT ![t] = "idle"]
    /\ UNCHANGED <<backoff, tryRes, spinFrame>>

NextSpin ==
    \/ \E t \in SpinThreads, spurious \in BOOLEAN : SpinTryLock(t, spurious)
    \/ \E t \in SpinThreads : SpinLockEnter(t)
    \/ \E t \in SpinThreads, spurious \in BOOLEAN : SpinLockTurn(t, spurious)
    \/ \E t \in SpinThreads : SpinDrop(t)

SpecSpin == InitRest /\ [][NextSpin]_vars

\* =================================================================
\*  TicketSpinlock: several threads calling lock and dropping guards
\* =================================================================
ticketFrame == <<coreVars, seqVars, gqVars, extVars, spinVars, parkVars>>

\* lock, line 163: ticket = tick.fetch_add(1), which wraps.
TicketDraw(t) ==
    /\ kpc[t] = "idle"
    /\ ticket' = [ticket EXCEPT ![t] = tick]
    /\ tick' = (tick + 1) % UsizeMod
    /\ kpc' = [kpc EXCEPT ![t] = "load"]
    /\ order' = Append(order, t)
    /\ UNCHANGED <<tock, cur, overflow_checks, ticketFrame>>

\* lock, lines 166-170 and 178-180: load tock; on cur == ticket leave the
\* loop with the guard.
TicketLoad(t) ==
    /\ kpc[t] = "load"
    /\ cur' = [cur EXCEPT ![t] = tock]
    /\ IF tock = ticket[t]
       THEN /\ kpc' = [kpc EXCEPT ![t] = "held"]
            /\ order' = SelectSeq(order, LAMBDA u : u # t)
       ELSE /\ kpc' = [kpc EXCEPT ![t] = "backoff"]
            /\ UNCHANGED order
    /\ UNCHANGED <<tick, tock, ticket, overflow_checks, ticketFrame>>

\* lock, lines 173-175: the bound of the backoff loop is (ticket - cur) << 2,
\* a plain subtraction: with ticket < cur it panics in a build with
\* overflow checks and wraps in a build without.
TicketBackoff(t) ==
    /\ kpc[t] = "backoff"
    /\ kpc' = [kpc EXCEPT ![t] =
                  IF ticket[t] < cur[t] /\ overflow_checks
                  THEN "panicked" ELSE "load"]
    /\ UNCHANGED <<tick, tock, ticket, cur, order, overflow_checks,
                   ticketFrame>>

\* Drop for TicketSpinlockGuard, lines 200-204: store
\* ticket.wrapping_add(1) to tock.
TicketDrop(t) ==
    /\ kpc[t] = "held"
    /\ tock' = (ticket[t] + 1) % UsizeMod
    /\ kpc' = [kpc EXCEPT ![t] = "idle"]
    /\ UNCHANGED <<tick, ticket, cur, order, overflow_checks, ticketFrame>>

\* What a thread inside lock, or holding the guard, does next.
TicketStep(t) == TicketLoad(t) \/ TicketBackoff(t) \/ TicketDrop(t)

NextTicket ==
    \/ \E t \in SpinThreads : TicketDraw(t)
    \/ \E t \in SpinThreads : TicketLoad(t)
    \/ \E t \in SpinThreads : TicketBackoff(t)
    \/ \E t \in SpinThreads : TicketDrop(t)

\* A fresh TicketSpinlock in a build with or without overflow checks.
InitBuilds ==
    /\ InitCore
    /\ InitSeq /\ InitGq /\ InitExt /\ InitSpin /\ InitTicket /\ InitPark
    /\ overflow_checks \in BOOLEAN

\* Every thread keeps running, and every holder drops its guard.
SpecTicket ==
    /\ InitBuilds
    /\ [][NextTicket]_vars
    /\ \A t \in SpinThreads : WF_vars(TicketStep(t))

\* =================================================================
\*  Parking: workers entering park_processor, threads pushing onto the
\*  global queue and unparking, and the shutdown signal of run
\* =================================================================
parkFrame == <<mask, slot, lock, pc, waitKind, ioOp, ioRes, guard, rpc,
               rEvents, handles, io_handler_queue, local_queue, consumed,
               delivered, yielded, everWaited, schedCalled, owed, reVars,
               joinVars, runpc, hook, savedHook, priorHook, machines,
               drained, wstate, procMsg, runRet, mainOut, seqVars, extVars,
               spinVars, ticketVars, gq_mutex, gitems, lastNotify>>

\* The closure a Processor passes to park_processor: the global queue is
\* still empty.
BeforeWait(q) == q = <<>>

\* push_global_queue, lines 550-556: push under the queue mutex, store the
\* size, keep it for the unpark.
PkPush(th) ==
    /\ gpc[th] = "run"
    /\ Len(global_queue) < MaxGq
    /\ global_queue' = Append(global_queue, th)
    /\ global_queue_size' = Len(global_queue) + 1
    /\ gsize' = [gsize EXCEPT ![th] = Len(global_queue) + 1]
    /\ gpc' = [gpc EXCEPT ![th] = "unpark"]
    /\ UNCHANGED <<gidle, idle_processor_count, spinning_processor_count,
                   idle_flag, is_shutting_down, parkVars, parkFrame>>

\* unpark_processor_maybe, lines 639-647: the test of max, the idle count
\* read before and the spinning count; cnt; the idle mutex is taken.
PkLockIdle(th) ==
    /\ gpc[th] = "loaded"
    /\ LET max == UnparkMax(gsize[th]) IN
       IF max > 0 /\ gidle[th] > 0 /\ spinning_processor_count = 0
       THEN /\ idle_mutex = NoThread
            /\ idle_mutex' = th
            /\ pcnt' = [pcnt EXCEPT ![th] =
                          IF gidle[th] < max THEN gidle[th] ELSE max]
            /\ gpc' = [gpc EXCEPT ![th] = "notify"]
       ELSE /\ gpc' = [gpc EXCEPT ![th] = "run"]
            /\ UNCHANGED <<idle_mutex, pcnt>>
    /\ gsize' = [gsize EXCEPT ![th] = 0]
    /\ gidle' = [gidle EXCEPT ![th] = 0]
    /\ UNCHANGED <<global_queue, global_queue_size, idle_processor_count,
                   spinning_processor_count, idle_flag, is_shutting_down,
                   waiting, parkFrame>>

\* Line 649: one notify_one; it wakes one of the waiting workers, if there
\* is any.
PkNotifyOne(th) ==
    /\ gpc[th] = "notify"
    /\ pcnt[th] > 0
    /\ pcnt' = [pcnt EXCEPT ![th] = @ - 1]
    /\ IF waiting = {}
       THEN UNCHANGED waiting
       ELSE \E w \in waiting : waiting' = waiting \ {w}
    /\ UNCHANGED <<global_queue, global_queue_size, gpc, gsize, gidle,
                   idle_processor_count, spinning_processor_count, idle_flag,
                   is_shutting_down, idle_mutex, parkFrame>>

\* Line 651: the loop is over, _guard is dropped.
PkUnlockIdle(th) ==
    /\ gpc[th] = "notify"
    /\ pcnt[th] = 0
    /\ idle_mutex' = NoThread
    /\ gpc' = [gpc EXCEPT ![th] = "run"]
    /\ UNCHANGED <<global_queue, global_queue_size, gsize, gidle,
                   idle_processor_count, spinning_processor_count, idle_flag,
                   is_shutting_down, waiting, pcnt, parkFrame>>

\* A worker in its schedule loop takes the head of the global queue.
PkPop(w) ==
    /\ gpc[w] = "run"
    /\ global_queue # <<>>
    /\ global_queue' = Tail(global_queue)
    /\ global_queue_size' = Len(global_queue) - 1
    /\ UNCHANGED <<gpc, gsize, gidle, idle_processor_count,
                   spinning_processor_count, idle_flag, is_shutting_down,
                   parkVars, parkFrame>>

\* park_processor, line 620: idle_processor_mutex.lock().
PkLock(w) ==
    /\ gpc[w] = "parked"
    /\ idle_mutex = NoThread
    /\ idle_mutex' = w
    /\ gpc' = [gpc EXCEPT ![w] = "idle_locked"]
    /\ UNCHANGED <<global_queue, global_queue_size, gsize, gidle,
                   idle_processor_count, spinning_processor_count, idle_flag,
                   is_shutting_down, waiting, pcnt, parkFrame>>

\* A park_processor that waits without calling before_wait.
PkCheck_NoRecheck(w) ==
    /\ gpc[w] = "idle_locked"
    /\ IF ~idle_flag
       THEN /\ waiting' = waiting \cup {w}
            /\ gpc' = [gpc EXCEPT ![w] = "waiting"]
       ELSE /\ gpc' = [gpc EXCEPT ![w] = "leaving"]
            /\ UNCHANGED waiting
    /\ idle_mutex' = NoThread
    /\ UNCHANGED <<global_queue, global_queue_size, gsize, gidle,
                   idle_processor_count, spinning_processor_count, idle_flag,
                   is_shutting_down, pcnt, parkFrame>>

\* park_processor, lines 622-625: with the flag clear and before_wait()
\* true the worker waits, which releases the mutex; otherwise the guard is
\* dropped at the end of the block.
PkCheck(w) ==
    /\ gpc[w] = "idle_locked"
    /\ IF ~idle_flag /\ BeforeWait(global_queue)
       THEN /\ waiting' = waiting \cup {w}
            /\ gpc' = [gpc EXCEPT ![w] = "waiting"]
       ELSE /\ gpc' = [gpc EXCEPT ![w] = "leaving"]
            /\ UNCHANGED waiting
    /\ idle_mutex' = NoThread
    /\ UNCHANGED <<global_queue, global_queue_size, gsize, gidle,
                   idle_processor_count, spinning_processor_count, idle_flag,
                   is_shutting_down, pcnt, parkFrame>>

\* Line 623: a notified worker takes the mutex again, wait returns, and
\* the guard it returns is dropped.
PkWake(w) ==
    /\ gpc[w] = "waiting"
    /\ w \notin waiting
    /\ idle_mutex = NoThread
    /\ gpc' = [gpc EXCEPT ![w] = "leaving"]
    /\ UNCHANGED <<global_queue, global_queue_size, gsize, gidle,
                   idle_processor_count, spinning_processor_count, idle_flag,
                   is_shutting_down, parkVars, parkFrame>>

\* Line 627: idle_processor_count.fetch_sub(1).
PkLeave(w) ==
    /\ gpc[w] = "leaving"
    /\ idle_processor_count' = idle_processor_count - 1
    /\ gpc' = [gpc EXCEPT ![w] = "run"]
    /\ UNCHANGED <<global_queue, global_queue_size, gsize, gidle,
                   spinning_processor_count, idle_flag, is_shutting_down,
                   parkVars, parkFrame>>

\* Scheduler::run, lines 347-348: is_shutting_down, then the flag is set
\* inside the idle mutex and the guard dropped with the statement.
PkSetFlag ==
    /\ gpc[0] = "run"
    /\ idle_mutex = NoThread
    /\ is_shutting_down' = TRUE
    /\ idle_flag' = TRUE
    /\ gpc' = [gpc EXCEPT ![0] = "flagged"]
    /\ UNCHANGED <<global_queue, global_queue_size, gsize, gidle,
                   idle_processor_count, spinning_processor_count, parkVars,
                   parkFrame>>

\* A shutdown that wakes one worker only.
PkNotifyAll_One ==
    /\ gpc[0] = "flagged"
    /\ IF waiting = {}
       THEN UNCHANGED waiting
       ELSE \E w \in waiting : waiting' = waiting \ {w}
    /\ gpc' = [gpc EXCEPT ![0] = "shutdown"]
    /\ UNCHANGED <<global_queue, global_queue_size, gsize, gidle,
                   idle_processor_count, spinning_processor_count, idle_flag,
                   is_shutting_down, idle_mutex, pcnt, parkFrame>>

\* Line 349: idle_processor_condvar.notify_all().
PkNotifyAll ==
    /\ gpc[0] = "flagged"
    /\ waiting' = {}
    /\ gpc' = [gpc EXCEPT ![0] = "shutdown"]
    /\ UNCHANGED <<global_queue, global_queue_size, gsize, gidle,
                   idle_processor_count, spinning_processor_count, idle_flag,
                   is_shutting_down, idle_mutex, pcnt, parkFrame>>

NextPark ==
    \/ \E th \in GqThreads : PkPush(th)
    \/ \E th \in GqThreads : GqLoadIdle(th)
    \/ \E th \in GqThreads : PkLockIdle(th)
    \/ \E th \in GqThreads : PkNotifyOne(th)
    \/ \E th \in GqThreads : PkUnlockIdle(th)
    \/ \E w \in GqWorkers : PkPop(w)
    \/ \E w \in GqWorkers : GqPark(w)
    \/ \E w \in GqWorkers : PkLock(w)
    \/ \E w \in GqWorkers : PkCheck(w)
    \/ \E w \in GqWorkers : PkWake(w)
    \/ \E w \in GqWorkers : PkLeave(w)
    \/ \E w \in GqWorkers : GqIncSpinning(w)
    \/ \E w \in GqWorkers : GqDecSpinning(w)
    \/ PkSetFlag
    \/ PkNotifyAll

\* A thread that started an unpark finishes it; a worker inside
\* park_processor goes on; a worker in its loop that finds work takes it.
SpecPark ==
    /\ InitRest
    /\ [][NextPark]_vars
    /\ \A th \in GqThreads :
          WF_vars(GqLoadIdle(th) \/ PkLockIdle(th) \/ PkNotifyOne(th)
                    \/ PkUnlockIdle(th))
    /\ \A w \in GqWorkers :
          /\ WF_vars(PkLock(w) \/ PkCheck(w) \/ PkWake(w) \/ PkLeave(w))
          /\ SF_vars(PkPop(w))

\* =================================================================
\*  Claims
\* =================================================================

\* C1: a wait(kind) racing with a notify whose events include kind resolves
\* in exactly one way.  No wait both consumes the mask bit and has its
\* handle delivered by notify; a wait that returns did exactly one of the
\* two; a suspended waiter is in its slot, or was delivered, or consumed the
\* bit; and no coroutine sits in the slot of a kind whose readiness notify
\* latched and nobody consumed (the event is not lost).
C1_WaitNotifyExactlyOne ==
    /\ \A c \in Coros : ~(consumed[c] /\ delivered[c])
    /\ \A c \in Coros : pc[c] = "wait_ret" => (consumed[c] # delivered[c])
    /\ \A c \in Coros :
          (pc[c] = "susp" /\ ioOp[c] # "none")
             => (consumed[c] \/ delivered[c] \/ slot[waitKind[c]] = c)
    /\ \A k \in Kinds : slot[k] # NoHandle => k \notin owed

\* The race itself: the first check saw the bit clear, notify latched the
\* kind before the coroutine parked, and the callback is about to re-check.
C1_Witness ==
    \E c \in Coros : pc[c] = "cb_locked" /\ waitKind[c] \in owed

\* C2: when wait(kind) holds the spinlock and finds the mask bit of kind
\* set (latched by notify or by make_ready), it returns without calling
\* park_with and the bit is clear afterwards.
C2_LatchedWaitReturns ==
    [][\A c \in Coros :
          (pc[c] = "wait_locked" /\ waitKind[c] \in mask /\ pc'[c] # pc[c])
             => (pc'[c] = "wait_ret" /\ ~yielded'[c]
                 /\ waitKind[c] \notin mask')]_vars

\* A wait that found the bit latched and returned at once.
C2_Witness ==
    \E c \in Coros : pc[c] = "wait_ret" /\ consumed[c] /\ ~yielded[c]

\* C3: a waiter slot holds a handle only if the mask bit of the same kind
\* is clear.
C3_SlotOnlyIfBitClear ==
    \A k \in Kinds : slot[k] # NoHandle => k \notin mask

\* An I/O operation of c has returned to its caller.
OpReturned(c) == ioOp[c] = "none" /\ ioRes[c] # "none"

Count(q, x) == Cardinality({ i \in 1 .. Len(q) : q[i] = x })

\* The holders of the handle of task t: a worker (its current slot, or the
\* park callback it is running), the run queues, io_handler_queue, the
\* waiter slots, the timer entries, the messages in the channel and the
\* join channels.
HolderCount(t) ==
      (IF tpc[t] \in {"run", "send"} THEN 1 ELSE 0)
    + Count(local_queue, t)
    + Count(global_queue, t)
    + Count(io_handler_queue, t)
    + Cardinality({ x \in Tokens \X Kinds : rs[x[1]].slot[x[2]] = t })
    + Cardinality({ e \in timers : e.coro = t })
    + Cardinality({ i \in 1 .. Len(channel) : channel[i].coro = t })
    + Cardinality({ u \in Tasks : jwait[u] = t })

\* C4: at every moment the handle of each live coroutine has exactly one
\* holder among a worker, the local and global run queues, a waiter slot, a
\* timer entry, a message in the channel and io_handler_queue; a coroutine
\* that does not exist or has finished has none.
C4_OneHolder ==
    \A t \in Tasks :
        HolderCount(t) = (IF tpc[t] \in {"absent", "done"} THEN 0 ELSE 1)

\* notify took one coroutine out of its waiter slot and a timer released
\* another: both are in io_handler_queue.
C4_Witness ==
    \E t, u \in ReTasks :
        /\ op[t] = "wait" /\ Count(io_handler_queue, t) = 1
        /\ op[u] = "sleep" /\ ret[u] = "ok" /\ Count(io_handler_queue, u) = 1

\* C5: no message sent to the reactor (Register, Deregister, Timer, the
\* Shutdown of <main>) is dropped, even when the channel is full at the
\* moment of sending.
C5_NoMessageDropped == dropped = <<>>

\* C6: when run returns, its result is the outcome of main_fn, Ok(value) or
\* Err(payload), never another coroutine's and never absent (the final
\* unwrap of the result slot does not panic).
C6_RunReturnsMainOutcome ==
    /\ runpc = "returned" => (runRet = mainOut /\ runRet \in Outcomes(Main))
    /\ runpc # "panicked"

\* run has returned.
C6_Witness == runpc = "returned" /\ runRet \in Outcomes(Main)

\* The coroutines a task spawns.
Children == Tasks \ {Main}

C9_HookRestored == runpc = "returned" => hook = priorHook

\* C10: the vector of Machines changes only before the startup barrier
\* releases or after every worker thread has been joined.
C10_MachinesFrozenUntilJoined ==
    [][machines' # machines =>
          \/ runpc \in {"spawn_machines", "barrier"}
          \/ \A w \in Workers : wstate[w] = "joined"]_vars

\* The last two calls were make_ready(k) and then wait(k) by the same
\* coroutine, and before them k was latched and no waiter was parked.
C11_Case ==
    /\ Len(trail) = 2
    /\ trail[1].op = "make_ready"
    /\ trail[2].op = "wait"
    /\ trail[2].arg = trail[1].arg
    /\ trail[2].coro = trail[1].coro
    /\ trail[1].arg \subseteq trail[1].mask
    /\ \A i \in Kinds : trail[1].slot[i] = NoHandle

\* C11 as stated: with k latched and no waiter parked, make_ready(k);
\* wait(k) leaves mask and waiter slots as they were and does not suspend
\* the caller.
C11_MakeReadyWaitNoOp ==
    C11_Case => /\ mask = trail[1].mask
                /\ slot = trail[1].slot
                /\ ~trail[2].parked

\* C11 amended: with k latched and no waiter parked, make_ready(k); wait(k)
\* does not suspend the caller and leaves the waiter slots as they were, and
\* the mask afterwards is the mask before without the bit of k.
C11_MakeReadyWaitClearsBit ==
    C11_Case => /\ mask = trail[1].mask \ trail[1].arg
                /\ slot = trail[1].slot
                /\ ~trail[2].parked

\* make_ready(k); wait(k) has run on a ReadyStates with k latched.
C11_Witness == C11_Case /\ pc[trail[2].coro] = "run"

\* The reactor has processed the Deregister message of task t, and t has
\* not yet run again.
DeregProcessed(t) ==
    /\ op[t] = "deregister"
    /\ tpc[t] = "susp"
    /\ \A i \in 1 .. Len(channel) : channel[i].coro # t

\* Task t owns a registration the reactor has not been told to remove.
Live(t) == fd[t] # NoToken /\ ~DeregProcessed(t)

\* C12: every Token in the slab belongs to exactly one live registration
\* and so to one ReadyStates, live registrations have distinct Tokens that
\* are in the slab, and once the Deregister of a Token has been processed
\* the slab holds no entry for it (until a later Register is given it).
C12_SlabTokens ==
    /\ \A k \in slab : Cardinality({ t \in Tasks : Live(t) /\ fd[t] = k }) = 1
    /\ \A t \in Tasks : Live(t) => fd[t] \in slab
    /\ \A t, u \in Tasks : (t # u /\ Live(t) /\ Live(u)) => fd[t] # fd[u]
    /\ \A t \in Tasks :
          (DeregProcessed(t) /\ \A u \in Tasks : Live(u) => fd[u] # fd[t])
              => fd[t] \notin slab

\* Two tasks hold live registrations after Register messages were processed.
C12_Witness ==
    \E t, u \in Tasks :
        t # u /\ Live(t) /\ Live(u) /\ {fd[t], fd[u]} \subseteq slab

\* C13: whenever the mutex of the global queue is not held, the atomic
\* global_queue_size equals the length of the global queue, after single
\* pushes, pushes of several handles and splices of io_handler_queue.
C13_SizeMatchesLength ==
    gq_mutex = NoThread => global_queue_size = Len(global_queue)

\* The queue was filled by a single push, a push of several handles and a
\* splice, and the mutex is free.
C13_Witness ==
    /\ gq_mutex = NoThread
    /\ global_queue_size = MaxGq
    /\ Count(global_queue, Main) >= 1
    /\ \E w \in GqWorkers : Count(global_queue, w) = 1
    /\ \E w \in GqWorkers : Count(global_queue, w) >= QUEUE_SIZE \div 2

\* C17: an unpark after a push or splice that left the queue with size s
\* issues exactly min(idle_count, s / (QUEUE_SIZE / 2) + 1) notify_one
\* calls if no worker is spinning, and none if a worker is spinning or no
\* worker is idle.
C17_UnparkCount ==
    lastNotify.by # NoThread =>
        lastNotify.count =
            (IF lastNotify.spinning > 0 \/ lastNotify.idle = 0
             THEN 0
             ELSE IF lastNotify.idle
                        <= lastNotify.size \div (QUEUE_SIZE \div 2) + 1
                  THEN lastNotify.idle
                  ELSE lastNotify.size \div (QUEUE_SIZE \div 2) + 1)

\* An unpark that was bounded by the queue size, not by the idle count.
C17_Witness ==
    /\ lastNotify.by # NoThread
    /\ lastNotify.spinning = 0
    /\ lastNotify.idle > lastNotify.size \div (QUEUE_SIZE \div 2) + 1
    /\ lastNotify.count > 0

\* Task t sits in io_handler_queue or in a run queue.
InQueues(t) ==
    Count(io_handler_queue, t) + Count(global_queue, t)
        + Count(local_queue, t) > 0

\* C14: a coroutine inside sleep_ms is made runnable only by its timer
\* firing, and then sleep_ms returns Ok, or by a failed installation of the
\* timer, and then it is re-queued at once and sleep_ms returns the error;
\* while the timer holds it, it is in no queue.
C14_SleepWakesOnTimerOrError ==
    /\ [](\A t \in Tasks :
            (op[t] = "sleep" /\ \E e \in timers : e.coro = t)
                => (~InQueues(t) /\ ret[t] = "ok"))
    /\ [][\A t \in Tasks :
            (op[t] = "sleep" /\ tpc[t] = "susp" /\ ~InQueues(t)
                /\ InQueues(t)')
              => \/ /\ \E e \in timers :
                          e.coro = t /\ e.left = 0 /\ e \notin timers'
                    /\ ret'[t] = "ok"
                    /\ Count(io_handler_queue', t) = 1
                 \/ /\ channel # <<>>
                    /\ Head(channel).type = "Timer"
                    /\ Head(channel).coro = t
                    /\ \A e \in timers' : e.coro # t
                    /\ ret'[t] = "err"
                    /\ Count(io_handler_queue', t) = 1]_vars

\* A sleeper whose timer fired is in io_handler_queue, about to get Ok.
C14_Witness ==
    \E t \in ReTasks :
        /\ op[t] = "sleep" /\ tpc[t] = "susp" /\ ret[t] = "ok"
        /\ Count(io_handler_queue, t) = 1

\* C15: for every delay, 0 included, a coroutine that called sleep_ms is
\* eventually spliced into the global queue, as long as the reactor keeps
\* ticking and has not been shut down.
C15_SleeperNotStarved ==
    \A t \in ReTasks :
        (op[t] = "sleep" /\ tpc[t] \in {"send", "susp"})
            ~> (Count(global_queue, t) > 0 \/ ~evRunning
                \/ rphase \in {"stopped", "panicked"})

\* A sleeper has reached the global queue with the reactor still running.
C15_Witness ==
    \E t \in ReTasks :
        /\ op[t] = "sleep" /\ ret[t] = "ok" /\ Count(global_queue, t) = 1
        /\ evRunning

\* C16 as stated: a scheduler-requiring operation called on a thread with
\* no Processor reports a SchedulerMissing error, sends no message to the
\* reactor and changes no scheduler state.
C16_OutsideCallReportsError ==
    [][outside' # outside
         => /\ outside'.outcome = "Err(Scheduler missing)"
            /\ UNCHANGED coreVars]_vars

\* C16 amended: only the construction of a GenericEvented reports the
\* error; spawn, spawn_opts and park_with panic on the calling thread.  In
\* every case no message is sent and no scheduler state changes.
C16_OutsideCallErrorOrPanic ==
    [][outside' # outside
         => /\ outside'.outcome =
                  (IF outside'.op = "GenericEvented::new"
                   THEN "Err(Scheduler missing)" ELSE "panic")
            /\ UNCHANGED coreVars]_vars

\* spawn was called from outside while the scheduler was running its
\* workers.
C16_Witness ==
    /\ outside.op = "spawn"
    /\ outside.outcome = "panic"
    /\ runpc = "loop"

\* The threads that hold a SpinlockGuard.
Guards == { t \in SpinThreads : spc[t] = "held" }

\* C18: under any interleaving of lock, try_lock and guard drops at most one
\* SpinlockGuard exists at a time; a guard is handed out only by a
\* successful exchange false to true, and the flag returns to false only
\* when the holder drops its guard.
C18_OneGuard ==
    /\ [](Cardinality(Guards) <= 1 /\ (lock <=> Guards # {}))
    /\ [][\A t \in SpinThreads :
             (spc[t] # "held" /\ spc'[t] = "held")
                => (lock = FALSE /\ lock' = TRUE)]_vars
    /\ [][(lock /\ ~lock')
             => \E t \in SpinThreads :
                    spc[t] = "held" /\ spc'[t] = "idle"]_vars

\* One thread holds the guard while a second has backed off inside lock and
\* a third got None from try_lock.
C18_Witness ==
    \E t, u, v \in SpinThreads :
        /\ spc[t] = "held"
        /\ spc[u] = "lock" /\ backoff[u] > BACKOFF_BASE
        /\ spc[v] = "idle" /\ tryRes[v] = "None"

\* C19: threads enter the critical section of a TicketSpinlock one at a
\* time and in the order in which they drew their tickets: the thread with
\* ticket t enters only when tock equals t, no thread that drew later enters
\* before it, and every thread that drew a ticket eventually enters,
\* provided each holder drops its guard.
C19_TicketFifo ==
    /\ [](Cardinality({ t \in SpinThreads : kpc[t] = "held" }) <= 1)
    /\ [][\A t \in SpinThreads :
             (kpc[t] # "held" /\ kpc'[t] = "held")
                => (tock = ticket[t] /\ Head(order) = t)]_vars
    /\ \A t \in SpinThreads :
          (kpc[t] \in {"load", "backoff"}) ~> (kpc[t] = "held")

\* C20: a read, write or flush on a GenericEvented never returns WouldBlock
\* or NotConnected: on either it waits (read for Readable, write and flush
\* for Writable) and retries the underlying call, and it returns the first
\* outcome that is a success or another error, unchanged and without
\* waiting.
C20_WaitsAndRetries ==
    /\ [](\A c \in IoCoros :
            (pc[c] = "io_ret" \/ OpReturned(c))
                => ioRes[c] \in {"ok", "other"})
    /\ [][\A c \in IoCoros :
            /\ (pc[c] = "io_call" /\ pc'[c] # "io_call")
                 => IF ioRes'[c] \in {"would_block", "not_connected"}
                    THEN /\ pc'[c] = "wait"
                         /\ waitKind'[c] =
                              (IF ioOp[c] = "read" THEN Readable
                               ELSE Writable)
                    ELSE pc'[c] = "io_ret"
            /\ (pc[c] = "wait_ret" /\ ioOp[c] \in IoOps /\ pc'[c] # "wait_ret")
                 => pc'[c] = "io_call"
            /\ (pc[c] = "io_ret" /\ pc'[c] # "io_ret")
                 => (ioRes'[c] = ioRes[c] /\ OpReturned(c)')]_vars

\* An operation that waited, retried and then returned another error.
C20_Witness ==
    \E c \in IoCoros : OpReturned(c) /\ ioRes[c] = "other" /\ everWaited[c]

\* C21: processing a Register message re-queues the requesting coroutine
\* onto io_handler_queue exactly once whether or not the callback succeeds;
\* the slab gains an entry for the new Token iff the callback succeeded, and
\* register returns Ok with that Token in exactly that case; when the
\* callback fails the slab is unchanged and register returns the error.
C21_RegisterRequeuesOnce ==
    [][(rphase = "msgs" /\ channel # <<>> /\ Head(channel).type = "Register"
          /\ channel' = Tail(channel))
        => LET t == Head(channel).coro IN
           /\ Count(io_handler_queue, t) = 0
           /\ io_handler_queue' = Append(io_handler_queue, t)
           /\ \/ /\ ret'[t] = "ok"
                 /\ fd'[t] \notin slab
                 /\ slab' = slab \cup {fd'[t]}
              \/ /\ ret'[t] = "err"
                 /\ fd'[t] = NoToken
                 /\ slab' = slab]_vars

\* A coroutine whose registration failed is back on io_handler_queue while
\* another registration is in the slab.
C21_Witness ==
    \E t \in ReTasks :
        /\ op[t] = "register" /\ ret[t] = "err"
        /\ Count(io_handler_queue, t) = 1
        /\ slab # {}

\* C28: every readiness event the reactor dispatches carries a Token that
\* is in the slab when it is handled, so the lookup "Token must be
\* registered" of Handler::ready never fails.
C28_TokenRegistered ==
    /\ rphase # "panicked"
    /\ rphase = "io" => kernel \subseteq slab

\* C22: run sends Shutdown to the workers, sets the shutting-down flag and
\* joins the worker threads only after the reactor loop has exited, and the
\* loop exits only after the main coroutine has stored its result and
\* posted Shutdown; so the result slot is filled when run reads it.
C22_ShutdownAfterMainResult ==
    /\ [][(\/ \E w \in Workers : procMsg'[w] /\ ~procMsg[w]
           \/ is_shutting_down' /\ ~is_shutting_down
           \/ \E w \in Workers : wstate'[w] = "joined" /\ wstate[w] # "joined")
          => rphase = "stopped"]_vars
    /\ [](rphase = "stopped"
            => (result # NoOutcome /\ tpc[Main] = "done" /\ ~evRunning))
    /\ [](runpc \in {"unwrap", "returned"} => result # NoOutcome)

\* run is about to read the result slot after the loop has ended and the
\* workers are joined.
C22_Witness ==
    /\ runpc = "unwrap"
    /\ rphase = "stopped"
    /\ result # NoOutcome
    /\ \A w \in Workers : wstate[w] = "joined"

\* C25: append_io_handler_to_global_queue moves every handle of
\* io_handler_queue to the tail of the global queue in the same order,
\* behind the handles already queued, leaves io_handler_queue empty, and
\* neither loses nor duplicates a handle; with an empty io_handler_queue it
\* takes no lock, changes nothing and wakes no worker.
C25_SpliceKeepsOrder ==
    /\ [][(gpc[0] = "locked" /\ gpc'[0] = "added")
            => /\ global_queue' = global_queue \o io_handler_queue
               /\ io_handler_queue' = <<>>]_vars
    /\ [][(gpc[0] = "run" /\ io_handler_queue = <<>>)
            => /\ gpc'[0] = "run"
               /\ gq_mutex' # 0
               /\ lastNotify' # lastNotify => lastNotify'.by # 0]_vars
    /\ [][(gpc[0] # "locked" /\ io_handler_queue' # io_handler_queue)
            => \E h \in GqWorkers :
                   io_handler_queue' = Append(io_handler_queue, h)]_vars

\* The run thread has just spliced two different handles behind a handle
\* that was already queued.
C25_Witness ==
    /\ gpc[0] = "added"
    /\ io_handler_queue = <<>>
    /\ Len(global_queue) >= 3
    /\ global_queue[Len(global_queue)] # global_queue[Len(global_queue) - 1]

\* C26: a coroutine handle is never enqueued onto a run queue by a thread
\* that holds the spinlock of the ReadyStates: the handles produced by
\* notify, and the handle the re-check of the park callback makes ready
\* again, are enqueued only after the spinlock has been released.
C26_EnqueueAfterUnlock ==
    [][/\ Len(io_handler_queue') > Len(io_handler_queue) => rpc # "locked"
       /\ \A c \in Coros :
            Count(local_queue', c) > Count(local_queue, c)
                => pc[c] \notin {"wait_locked", "cb_locked"}]_vars

\* C29: when wait(kind) installs the calling coroutine in the waiter slot
\* of kind, that slot is empty; a handle parked in a waiter slot leaves it
\* only by being taken by notify, and is never overwritten or discarded by
\* a later wait(kind) of another coroutine on the same ReadyStates.
C29_SlotEmptyOnInstall ==
    [][\A k \in Kinds :
         /\ (slot'[k] # slot[k] /\ slot'[k] # NoHandle) => slot[k] = NoHandle
         /\ (slot'[k] # slot[k] /\ slot[k] # NoHandle)
               => (rpc = "locked" /\ slot'[k] = NoHandle
                   /\ slot[k] \in SeqToSet(handles'))]_vars

\* C27: if a read, write or flush on a GenericEvented called
\* ReadyStates::wait at least once, its SyncGuard is disarmed when the
\* operation returns, so the return does not call sched(), whether the
\* operation returns a success or an error.
C27_WaitedOpReturnsDisarmed ==
    \A c \in IoCoros :
        (everWaited[c] /\ (pc[c] = "io_ret" \/ OpReturned(c)))
            => (~guard[c] /\ ~schedCalled[c])

\* An operation that waited has returned a success, and its coroutine was
\* not yielded by the return.
C27_Witness ==
    \E c \in IoCoros :
        OpReturned(c) /\ everWaited[c] /\ ioRes[c] = "ok" /\ pc[c] = "run"

\* Worker w is blocked in the wait on the idle condition variable.
Blocked(w) == gpc[w] = "waiting" /\ w \in waiting

\* A thread is between its push and the end of its unpark.
UnparkPending == \E th \in GqThreads : gpc[th] \in {"unpark", "loaded", "notify"}

InPark == {w \in GqWorkers :
             gpc[w] \in {"parked", "idle_locked", "waiting", "leaving"}}

\* C24: once run has set the shutdown flag under the idle mutex and called
\* notify_all, no worker is blocked on the idle condition variable; from
\* the moment the flag is set a worker entering park_processor returns
\* without waiting; idle_processor_count counts the workers inside
\* park_processor, so it is back at 0 when they have all returned.
C24_ShutdownWakesAll ==
    /\ [](gpc[0] = "shutdown" => waiting = {})
    /\ [](idle_processor_count = Cardinality(InPark))
    /\ [][idle_flag => waiting' \subseteq waiting]_vars
    /\ [][\A w \in GqWorkers :
            (idle_flag /\ gpc[w] = "idle_locked" /\ gpc'[w] # gpc[w])
                => gpc'[w] = "leaving"]_vars

\* After notify_all one worker it woke has yet to return from wait, and
\* another holds the idle mutex with the queue empty and the flag set.
C24_Witness ==
    /\ gpc[0] = "shutdown"
    /\ global_queue = <<>>
    /\ \E w1, w2 \in GqWorkers :
          /\ gpc[w1] = "waiting"
          /\ gpc[w2] = "idle_locked"

====
